---------------------------- MODULE Spec2Model ----------------------------
(***************************************************************************)
(* KA-28 chat client: the streaming response consumer of groqService.ts    *)
(* and the session controller / session store of App.tsx.                  *)
(*                                                                         *)
(* Text is modelled as a sequence of one-character strings, a byte stream  *)
(* as a sequence of bytes (one-character strings for ASCII bytes, "C3" and *)
(* "A9" for the two bytes of the character "é").                           *)
(***************************************************************************)
EXTENDS Integers, Sequences, FiniteSets, TLC

(***************************************************************************)
(* Bounds of the model.                                                    *)
(***************************************************************************)
\* records in one response body (StreamSpec)
MaxRecords == 2
\* handleSendMessage calls accepted in one behaviour (Spec)
MaxSends == 2
\* values one stream emits before it ends or fails (Spec)
MaxDeltas == 2

NULL == "null"

(***************************************************************************)
(* Text helpers: String.prototype.lastIndexOf, split, startsWith, trim.    *)
(***************************************************************************)
NL == "\n"
WhiteSpace == {" ", NL, "\r", "\t"}

\* 1-based index of the last occurrence of c in s, 0 when there is none
LastIndexOf(s, c) ==
  IF \E i \in 1..Len(s) : s[i] = c
    THEN CHOOSE i \in 1..Len(s) : s[i] = c /\ \A j \in (i+1)..Len(s) : s[j] # c
    ELSE 0

FirstIndexOf(s, c) ==
  IF \E i \in 1..Len(s) : s[i] = c
    THEN CHOOSE i \in 1..Len(s) : s[i] = c /\ \A j \in 1..(i-1) : s[j] # c
    ELSE 0

RECURSIVE Split(_)
\* s.split('\n'): the pieces between the newlines; always at least one piece
Split(s) ==
  LET i == FirstIndexOf(s, NL)
  IN IF i = 0 THEN <<s>>
     ELSE <<SubSeq(s, 1, i - 1)>> \o Split(SubSeq(s, i + 1, Len(s)))

StartsWith(s, p) == Len(s) >= Len(p) /\ SubSeq(s, 1, Len(p)) = p

\* faulty variant, for testing the properties: a trim that removes nothing
MutTrim(s) == s

\* s.trim(): leading and trailing white space removed
Trim(s) ==
  LET keep == {i \in 1..Len(s) : s[i] \notin WhiteSpace}
  IN IF keep = {} THEN <<>>
     ELSE SubSeq(s, CHOOSE i \in keep : \A j \in keep : i <= j,
                    CHOOSE i \in keep : \A j \in keep : j <= i)

(***************************************************************************)
(* The response body of the chat-completions endpoint: newline-delimited   *)
(* "data: <json>" records, ended by "data: [DONE]".                        *)
(* A JSON payload is written {c1..cn}: it parses to an object whose        *)
(* choices[0].delta.content is the text c1..cn (absent when n = 0); any    *)
(* other payload fails to parse.                                           *)
(***************************************************************************)
DataPrefix == <<"d", "a", "t", "a", ":", " ">>
DoneText == <<"[", "D", "O", "N", "E", "]">>

RecordKinds == {"deltaA", "deltaE", "empty", "done", "bad", "other", "blank"}

\* the bytes of one record's line, without its newline
LineOf(kind) ==
  CASE kind = "deltaA" -> DataPrefix \o <<"{", "a", "}">>
    [] kind = "deltaE" -> DataPrefix \o <<"{", "C3", "A9", "}">>
    [] kind = "empty"  -> DataPrefix \o <<"{", "}">>
    [] kind = "done"   -> DataPrefix \o DoneText
    [] kind = "bad"    -> DataPrefix \o <<"a", "}">>
    [] kind = "other"  -> <<":", "x">>
    [] OTHER           -> <<>>

RECURSIVE BytesOf(_, _)
\* the body carrying the records rs; the last line has a newline iff terminated
BytesOf(rs, terminated) ==
  IF rs = <<>> THEN <<>>
  ELSE LineOf(Head(rs))
       \o (IF Len(rs) > 1 \/ terminated THEN <<NL>> ELSE <<>>)
       \o BytesOf(Tail(rs), terminated)

(***************************************************************************)
(* TextDecoder.decode(value, {stream: true}) for UTF-8: a lead byte is     *)
(* kept until its continuation byte arrives, in this chunk or the next.    *)
(***************************************************************************)
LeadByte == "C3"
ContByte == "A9"
Replacement == "\\uFFFD"

RECURSIVE Decode(_, _)
\* pending: NULL or the lead byte kept from the bytes before
Decode(pending, bytes) ==
  IF bytes = <<>> THEN [text |-> <<>>, pending |-> pending]
  ELSE LET b == Head(bytes)
       IN IF pending = NULL
            THEN IF b = LeadByte THEN Decode(LeadByte, Tail(bytes))
                 ELSE LET r == Decode(NULL, Tail(bytes))
                      IN [r EXCEPT !.text =
                            <<IF b = ContByte THEN Replacement ELSE b>> \o @]
          ELSE IF b = ContByte
            THEN LET r == Decode(NULL, Tail(bytes))
                 IN [r EXCEPT !.text = <<"é">> \o @]
            ELSE LET r == Decode(NULL, bytes)
                 IN [r EXCEPT !.text = <<Replacement>> \o @]

\* faulty variant, for testing the properties: a parser that takes any payload for text
MutParsePayload(dataString) == [ok |-> TRUE, content |-> dataString]

\* JSON.parse(dataString) and data.choices[0]?.delta?.content
ParsePayload(dataString) ==
  LET n == Len(dataString)
  IN IF /\ n >= 2
        /\ dataString[1] = "{"
        /\ dataString[n] = "}"
        /\ \A i \in 2..(n-1) : dataString[i] \notin {"{", "}"}
       THEN [ok |-> TRUE, content |-> SubSeq(dataString, 2, n - 1)]
       ELSE [ok |-> FALSE, content |-> <<>>]

(***************************************************************************)
(* sendMessageStream: the loop body for one chunk.  g is the generator's   *)
(* state: pending (decoder), buffer, acc (accumulatedResponse), emitted    *)
(* (the values yielded so far), status.                                    *)
(***************************************************************************)
\* faulty variant, for testing the properties: an accumulation that keeps the last delta only
MutAccumulate(acc, content) == content

\* accumulatedResponse += content; the value yielded is the whole text so far
Accumulate(acc, content) == acc \o content

\* faulty variant, for testing the properties: a consumer that knows no sentinel
MutIsSentinel(dataString) == FALSE

\* dataString === '[DONE]'
IsSentinel(dataString) == dataString = DoneText

RECURSIVE ProcessLines(_, _)
\* for (const line of lines) { ... }
ProcessLines(g, lines) ==
  IF lines = <<>> \/ g.status # "reading" THEN g
  ELSE LET line == Head(lines)
           dataString == Trim(SubSeq(line, Len(DataPrefix) + 1, Len(line)))
           parsed == ParsePayload(dataString)
           acc == Accumulate(g.acc, parsed.content)
       IN IF ~StartsWith(line, DataPrefix) THEN ProcessLines(g, Tail(lines))
          ELSE IF IsSentinel(dataString) THEN [g EXCEPT !.status = "returned"]
          ELSE IF dataString = <<>> THEN ProcessLines(g, Tail(lines))
          ELSE IF parsed.ok /\ parsed.content # <<>>
            THEN ProcessLines([g EXCEPT !.acc = acc,
                                        !.emitted = Append(@, acc)],
                              Tail(lines))
          ELSE ProcessLines(g, Tail(lines))

\* faulty variant, for testing the properties: a buffer that forgets the partial line
MutRetain(buffer, boundary) == <<>>

\* buffer.substring(boundary + 1): the partial line kept for the next chunk
Retain(buffer, boundary) == SubSeq(buffer, boundary + 1, Len(buffer))

ProcessChunk(g, value) ==
  LET d == Decode(g.pending, value)
      buffer == g.buffer \o d.text
      boundary == LastIndexOf(buffer, NL)
      g1 == [g EXCEPT !.pending = d.pending, !.buffer = buffer]
      g2 == IF boundary = 0 THEN g1
            ELSE ProcessLines([g1 EXCEPT !.buffer = Retain(buffer, boundary)],
                              Split(SubSeq(buffer, 1, boundary - 1)))
  IN [g2 EXCEPT !.splitChar = @ \/ d.pending # NULL,
                !.splitLine = @ \/ (boundary # Len(buffer))]

\* splitChar, splitLine: some chunk so far ended inside a character, a line
NewGenerator ==
  [pending |-> NULL, buffer |-> <<>>, acc |-> <<>>, emitted |-> <<>>,
   status |-> "reading", pos |-> 0, splitChar |-> FALSE, splitLine |-> FALSE]


(***************************************************************************)
(* The application state of App.tsx, its storage, and the calls in flight. *)
(***************************************************************************)
VARIABLES
  chatSessions,     \* useState<ChatSession[]>
  activeSessionId,  \* useState<string | null>
  input,            \* useState(''): the textarea's text
  isLoading,        \* useState(false): the "send in flight" flag
  sessionToDelete,  \* useState<string | null>
  storage,          \* localStorage: the two keys
  sends,            \* the handleSendMessage calls accepted so far
  voice,            \* the running SpeechRecognition and the closure it holds
  phase,            \* "init", "loading" (load effect ran), "ready",
                    \* "crashed" (an effect threw: the root is unmounted)
  loaded,           \* what the load effect passed to the setters
  closed,           \* the state the application had when it was last closed
  body,             \* a response body: [records, terminated, bytes]
  gen,              \* sendMessageStream's state while it consumes body
  http              \* one call of the service and what the transport answered

appVars == <<chatSessions, activeSessionId, input, isLoading, sessionToDelete,
             storage, sends, voice, phase, loaded, closed>>
streamVars == <<body, gen, http>>
vars == <<chatSessions, activeSessionId, input, isLoading, sessionToDelete,
          storage, sends, voice, phase, loaded, closed, body, gen, http>>

NewChatTitle == "New Chat"
\* what the user can type or dictate, the welcome screen's prompts
Inputs == {<<>>, <<" ">>, <<"h">>}
Prompts == {<<"h">>}
\* the non-empty delta the stream of call i carries
DeltaOf(i) == IF i % 2 = 1 THEN <<"a">> ELSE <<"b">>
\* what getTitleForChat resolves to
Titles == {NewChatTitle, "T"}
\* the message of the Error a failed request throws
Diagnostics == {<<"E">>}

UserMessage(content) == [role |-> "user", content |-> content]
ModelMessage(content) == [role |-> "model", content |-> content]
ErrorMessage(content) == [role |-> "error", content |-> content]

\* uuidv4(): an id no session had before; n is the number of the creating call
NewId(n) == "s" \o ToString(n)

SessionIds(cs) == {cs[k].id : k \in 1..Len(cs)}

\* chatSessions.find((s) => s.id === id)
FindSession(cs, id) == cs[CHOOSE k \in 1..Len(cs) : cs[k].id = id]

(***************************************************************************)
(* JSON.stringify of the collection, as the sequence of its tokens, and    *)
(* JSON.parse of a token sequence.                                         *)
(***************************************************************************)
P(t) == [t |-> t]
S(v) == [t |-> "s", v |-> v]

RECURSIVE JoinTokens(_)
\* the token sequences of ts, separated by commas
JoinTokens(ts) ==
  IF ts = <<>> THEN <<>>
  ELSE IF Len(ts) = 1 THEN ts[1]
  ELSE ts[1] \o <<P(",")>> \o JoinTokens(Tail(ts))

StringifyMessage(m) ==
  <<P("{"), S("role"), P(":"), S(m.role), P(","),
    S("content"), P(":"), S(m.content), P("}")>>

StringifySession(s) ==
  <<P("{"), S("id"), P(":"), S(s.id), P(","),
    S("title"), P(":"), S(s.title), P(","), S("messages"), P(":"), P("[")>>
  \o JoinTokens([k \in 1..Len(s.messages) |-> StringifyMessage(s.messages[k])])
  \o <<P("]"), P("}")>>

\* faulty variant, for testing the properties: a serialization that writes an empty array
MutStringify(cs) == <<P("["), P("]")>>

Stringify(cs) ==
  <<P("[")>>
  \o JoinTokens([k \in 1..Len(cs) |-> StringifySession(cs[k])])
  \o <<P("]")>>

\* the value of the literal null
JsonNull == [null |-> TRUE]

ParseFail == [ok |-> FALSE, val |-> <<>>, next |-> 0]
TokenAt(toks, i) == IF i \in 1..Len(toks) THEN toks[i].t ELSE "eof"

RECURSIVE ParseValue(_, _), ParseElements(_, _, _), ParseMembers(_, _, _)
\* the value that starts at token i: [ok, val, next]
ParseValue(toks, i) ==
  CASE TokenAt(toks, i) = "s" -> [ok |-> TRUE, val |-> toks[i].v, next |-> i + 1]
    [] TokenAt(toks, i) = "null" ->
         [ok |-> TRUE, val |-> JsonNull, next |-> i + 1]
    [] TokenAt(toks, i) = "[" ->
         IF TokenAt(toks, i + 1) = "]"
           THEN [ok |-> TRUE, val |-> <<>>, next |-> i + 2]
           ELSE ParseElements(toks, i + 1, <<>>)
    [] TokenAt(toks, i) = "{" ->
         IF TokenAt(toks, i + 1) = "}"
           THEN [ok |-> TRUE, val |-> <<>>, next |-> i + 2]
           ELSE ParseMembers(toks, i + 1, <<>>)
    [] OTHER -> ParseFail

\* the elements of an array from token i on; acc holds those before
ParseElements(toks, i, acc) ==
  LET v == ParseValue(toks, i)
  IN IF ~v.ok THEN ParseFail
     ELSE IF TokenAt(toks, v.next) = ","
       THEN ParseElements(toks, v.next + 1, Append(acc, v.val))
     ELSE IF TokenAt(toks, v.next) = "]"
       THEN [ok |-> TRUE, val |-> Append(acc, v.val), next |-> v.next + 1]
     ELSE ParseFail

\* the members of an object from token i on; acc holds the <<key, value>> before
ParseMembers(toks, i, acc) ==
  IF TokenAt(toks, i) # "s" \/ TokenAt(toks, i + 1) # ":" THEN ParseFail
  ELSE LET v == ParseValue(toks, i + 2)
           all == Append(acc, <<toks[i].v, v.val>>)
       IN IF ~v.ok THEN ParseFail
          ELSE IF TokenAt(toks, v.next) = ","
            THEN ParseMembers(toks, v.next + 1, all)
          ELSE IF TokenAt(toks, v.next) = "}"
            THEN [ok |-> TRUE,
                  val |-> [key \in {all[k][1] : k \in 1..Len(all)} |->
                             all[CHOOSE k \in 1..Len(all) :
                                   /\ all[k][1] = key
                                   /\ \A j \in (k+1)..Len(all) : all[j][1] # key][2]],
                  next |-> v.next + 1]
          ELSE ParseFail

\* JSON.parse(text): ok is FALSE when it throws
Parse(toks) ==
  LET v == ParseValue(toks, 1)
  IN IF v.ok /\ v.next = Len(toks) + 1 THEN v ELSE ParseFail

(***************************************************************************)
(* localStorage and the two effects that use it.                           *)
(***************************************************************************)
NoItem == [has |-> FALSE]
Item(v) == [has |-> TRUE, v |-> v]

\* faulty variant, for testing the properties: a save effect that stores the absent id as a text
MutStoredActiveId(aid) == Item(aid)

\* if (activeSessionId) setItem('activeSessionId', ...) else removeItem(...)
StoredActiveId(aid) == IF aid # NULL THEN Item(aid) ELSE NoItem

\* faulty variant, for testing the properties: a save effect without the branch for the empty collection
MutSaveEffect(cs, aid) ==
  [chatSessions |-> Item(Stringify(cs)),
   activeSessionId |-> IF aid # NULL THEN Item(aid) ELSE NoItem]

\* the save effect: what storage holds after it ran with cs and aid
SaveEffect(cs, aid) ==
  IF Len(cs) > 0
    THEN [chatSessions |-> Item(Stringify(cs)),
          activeSessionId |-> StoredActiveId(aid)]
    ELSE [chatSessions |-> NoItem, activeSessionId |-> NoItem]

\* faulty variant, for testing the properties: a load effect that always opens the first session
MutLoadActive(sessions, saved) ==
  IF Len(sessions) > 0 THEN sessions[1].id ELSE NULL

\* the load effect's choice of the active session
LoadActive(sessions, saved) ==
  IF Len(sessions) > 0
    THEN IF saved.has /\ saved.v \in SessionIds(sessions)
           THEN saved.v
           ELSE sessions[1].id
    ELSE NULL

\* JSON.parse(text) returns an array
IsArray(toks) == TokenAt(toks, 1) = "["

\* the load effect throws: JSON.parse returned null, which is assigned to
\* loadedSessions outside the reach of the catch, and loadedSessions.length
\* is a TypeError
LoadThrows(st) ==
  /\ st.chatSessions.has
  /\ Parse(st.chatSessions.v).ok
  /\ ~IsArray(st.chatSessions.v)

\* faulty variant, for testing the properties: a load effect that trusts the stored active id
MutLoadEffect(st) ==
  [sessions |-> IF st.chatSessions.has /\ Parse(st.chatSessions.v).ok
                  THEN Parse(st.chatSessions.v).val ELSE <<>>,
   active |-> IF st.activeSessionId.has THEN st.activeSessionId.v ELSE NULL]

\* the load effect: the collection and the active id it passes to the setters
LoadEffect(st) ==
  LET parsed == IF st.chatSessions.has THEN Parse(st.chatSessions.v) ELSE ParseFail
      loadedSessions == IF parsed.ok THEN parsed.val ELSE <<>>
  IN [sessions |-> loadedSessions,
      active |-> LoadActive(loadedSessions, st.activeSessionId)]

\* the state is set to cs and aid, the component renders again, and the save
\* effect runs if one of its two dependencies changed
Commit(cs, aid, setSessions) ==
  /\ chatSessions' = cs
  /\ activeSessionId' = aid
  /\ storage' = IF setSessions \/ aid # activeSessionId
                  THEN SaveEffect(cs, aid) ELSE storage

\* faulty variant, for testing the properties: an update that puts the exchange in front
MutAppendExchange(messages, messageContent) ==
  <<UserMessage(messageContent), ModelMessage(<<>>)>> \o messages

\* (messages) => [...messages, userMessage, modelMessage]
AppendExchange(messages, messageContent) ==
  messages \o <<UserMessage(messageContent), ModelMessage(<<>>)>>

\* faulty variant, for testing the properties: an update that appends a message for every value
MutSetTrailingContent(messages, chunk) ==
  IF Len(messages) > 0 THEN Append(messages, ModelMessage(chunk)) ELSE messages

\* newMessages[newMessages.length - 1].content = chunk
SetTrailingContent(messages, chunk) ==
  IF Len(messages) > 0
    THEN [messages EXCEPT ![Len(messages)].content = chunk]
    ELSE messages

\* faulty variant, for testing the properties: an update that appends the error message
MutSetTrailingError(messages, text) ==
  IF Len(messages) > 0 THEN Append(messages, ErrorMessage(text)) ELSE messages

\* newMessages[newMessages.length - 1] = errorMessage
SetTrailingError(messages, text) ==
  IF Len(messages) > 0
    THEN [messages EXCEPT ![Len(messages)] = ErrorMessage(text)]
    ELSE messages

\* the three functions handleSendMessage passes to updateSessionMessages
ApplyUpdate(updateFn, messages) ==
  CASE updateFn.kind = "append" -> AppendExchange(messages, updateFn.arg)
    [] updateFn.kind = "content" -> SetTrailingContent(messages, updateFn.arg)
    [] updateFn.kind = "error" -> SetTrailingError(messages, updateFn.arg)

\* updateSessionMessages(sessionId, updateFn) applied to the collection cs
UpdateSessionMessages(cs, sessionId, updateFn) ==
  [k \in 1..Len(cs) |->
     IF cs[k].id = sessionId
       THEN [cs[k] EXCEPT !.messages = ApplyUpdate(updateFn, @)]
       ELSE cs[k]]

\* the messages of session id, <<>> when the collection has no such session
MessagesOf(cs, id) ==
  IF id \in SessionIds(cs) THEN FindSession(cs, id).messages ELSE <<>>

\* the part of the collection cs that a closure holding the active id aid can
\* read: handleSendMessage looks up chatSessions.find((s) => s.id === aid) only
Reads(cs, aid) == SelectSeq(cs, LAMBDA s : s.id = aid)

\* the closure cl as the recognition's onresult handler holds it.  Its only
\* reader is handleSendMessage(cl.input); a closure whose call returns at the
\* first line (blank input or isLoading set) reads nothing else of cl, and
\* all such closures are represented by one.
Captured(cl) ==
  IF Trim(cl.input) = <<>> \/ cl.isLoading
    THEN [on |-> TRUE, isLoading |-> TRUE, input |-> <<>>,
          activeSessionId |-> NULL, chatSessions |-> <<>>]
    ELSE [on |-> TRUE, isLoading |-> FALSE, input |-> cl.input,
          activeSessionId |-> cl.activeSessionId,
          chatSessions |-> Reads(cl.chatSessions, cl.activeSessionId)]

NoVoice == [on |-> FALSE]
NotClosed == [set |-> FALSE]
NothingLoaded == [sessions |-> <<>>, active |-> NULL]
Done == [pc |-> "done"]

InFlight(i) == i \in 1..Len(sends) /\ sends[i].pc \in {"stream", "title"}

\* the state a render of App closes over
Rendered ==
  [isLoading |-> isLoading, activeSessionId |-> activeSessionId,
   chatSessions |-> chatSessions, input |-> input]

AppInitial ==
  /\ chatSessions = <<>>
  /\ activeSessionId = NULL
  /\ input = <<>>
  /\ isLoading = FALSE
  /\ sessionToDelete = NULL
  /\ voice = NoVoice
  /\ phase = "init"
  /\ loaded = NothingLoaded

\* a session an earlier run of the application has left in the storage
EarlierSession ==
  [id |-> "s0", title |-> "T",
   messages |-> <<UserMessage(<<"h">>), ModelMessage(<<"a">>)>>]

\* the storage of a first visit and of a visit after an earlier run; a
\* storage whose active id names no stored session; storages whose
\* 'chatSessions' is not a serialized collection: a text that is not JSON,
\* and the JSON text null
InitialStorages ==
  {[chatSessions |-> NoItem, activeSessionId |-> NoItem],
   [chatSessions |-> Item(Stringify(<<EarlierSession>>)),
    activeSessionId |-> Item(EarlierSession.id)],
   [chatSessions |-> Item(Stringify(<<EarlierSession>>)),
    activeSessionId |-> Item("gone")],
   [chatSessions |-> Item(<<P("["), P("{")>>),
    activeSessionId |-> Item(EarlierSession.id)],
   [chatSessions |-> Item(<<P("null")>>), activeSessionId |-> NoItem]}

\* no response yet
NoResponse == [ok |-> TRUE, statusText |-> "", text |-> <<>>, body |-> FALSE,
               data |-> [kind |-> "empty", content |-> <<>>]]

\* the service is not called
NoCall ==
  [service |-> "groqService", env |-> NULL, call |-> "none", fn |-> "none",
   pc |-> "done", arg |-> <<>>, requests |-> 0, response |-> NoResponse,
   error |-> "", title |-> "", messages |-> <<>>,
   sessionTitle |-> NewChatTitle]

Init ==
  /\ AppInitial
  /\ storage \in InitialStorages
  /\ sends = <<>>
  /\ closed = NotClosed
  /\ body = [records |-> <<>>, terminated |-> TRUE, bytes |-> <<>>]
  /\ gen = NewGenerator
  /\ http = NoCall

(***************************************************************************)
(* handleSendMessage(messageContent), called with the state cl that the    *)
(* calling closure captured.  Everything up to the first await is one step.*)
(***************************************************************************)
\* if (!messageContent.trim() || isLoading) return;
SendRejected(cl, messageContent) ==
  Trim(messageContent) = <<>> \/ cl.isLoading

NewSession(id) == [id |-> id, title |-> NewChatTitle, messages |-> <<>>]

\* mapRoleToApi(role)
MapRoleToApi(role) ==
  CASE role = "user" -> "user"
    [] role = "model" -> "assistant"
    [] OTHER -> "user"

\* faulty variant, for testing the properties: a request without the history
MutMessagesToApi(history, message) == <<[role |-> "user", content |-> message]>>

\* messagesToApi: the history without its error messages, then the new
\* user content
MessagesToApi(history, message) ==
  LET kept == SelectSeq(history, LAMBDA msg : msg.role \in {"user", "model"})
  IN [k \in 1..Len(kept) |->
        [role |-> MapRoleToApi(kept[k].role), content |-> kept[k].content]]
     \o <<[role |-> "user", content |-> message]>>

\* const SYSTEM_INSTRUCTION = '...'
SYSTEM_INSTRUCTION == <<"I">>

\* body.messages: what sendMessageStream posts
RequestBody(history, message) ==
  <<[role |-> "system", content |-> SYSTEM_INSTRUCTION]>>
  \o MessagesToApi(history, message)

\* faulty variant, for testing the properties: a new session put at the end
MutPrepend(newSession, prev) == Append(prev, newSession)

\* setChatSessions((prev) => [newSession, ...prev])
Prepend(newSession, prev) == <<newSession>> \o prev

HandleSendMessage(cl, messageContent) ==
  LET isNewSession == cl.activeSessionId = NULL
      sessionId == IF isNewSession THEN NewId(Len(sends) + 1)
                   ELSE cl.activeSessionId
      sessionHistory == IF isNewSession THEN <<>>
                        ELSE MessagesOf(cl.chatSessions, sessionId)
      withNew == IF isNewSession
                   THEN Prepend(NewSession(sessionId), chatSessions)
                   ELSE chatSessions
  IN IF SendRejected(cl, messageContent)
       THEN UNCHANGED appVars
     ELSE IF ~isNewSession /\ sessionId \notin SessionIds(cl.chatSessions)
       THEN \* "should not happen": the flag is set and cleared again
            /\ input' = <<>>
            /\ isLoading' = FALSE
            /\ UNCHANGED <<chatSessions, activeSessionId, storage, sends,
                           sessionToDelete, voice, phase, loaded, closed>>
     ELSE /\ Len(sends) < MaxSends
          /\ input' = <<>>
          /\ isLoading' = TRUE
          /\ Commit(UpdateSessionMessages(withNew, sessionId,
                      [kind |-> "append", arg |-> messageContent]),
                    IF isNewSession THEN sessionId ELSE activeSessionId, TRUE)
          /\ sends' = Append(sends,
                        [pc |-> "stream", sid |-> sessionId,
                         isNew |-> isNewSession, content |-> messageContent,
                         last |-> <<>>,
                         slot |-> Len(MessagesOf(chatSessions, sessionId)) + 2,
                         request |-> RequestBody(sessionHistory,
                                                 messageContent)])
          /\ UNCHANGED <<sessionToDelete, voice, phase, loaded, closed>>

\* the confirmation modal's overlay covers the page: a click closes it
ModalOpen == sessionToDelete # NULL

\* the welcome screen is rendered instead of the message list
WelcomeShown ==
  /\ ~isLoading
  /\ IF activeSessionId \in SessionIds(chatSessions)
       THEN Len(FindSession(chatSessions, activeSessionId).messages) = 0
       ELSE TRUE

\* the send button, enabled by !(isLoading || !input.trim())
SendButton ==
  /\ phase = "ready" /\ ~ModalOpen
  /\ ~isLoading /\ Trim(input) # <<>>
  /\ HandleSendMessage(Rendered, input)
  /\ UNCHANGED streamVars

\* Enter in the textarea, which is disabled while isLoading
EnterKey ==
  /\ phase = "ready" /\ ~ModalOpen
  /\ ~isLoading
  /\ HandleSendMessage(Rendered, input)
  /\ UNCHANGED streamVars

\* a prompt of the welcome screen is clicked
WelcomePrompt ==
  /\ phase = "ready" /\ ~ModalOpen
  /\ WelcomeShown
  /\ \E p \in Prompts : HandleSendMessage(Rendered, p)
  /\ UNCHANGED streamVars

\* the textarea's onChange
SetInput ==
  /\ phase = "ready" /\ ~ModalOpen
  /\ ~isLoading
  /\ \E t \in Inputs : input' = t
  /\ UNCHANGED <<chatSessions, activeSessionId, isLoading, sessionToDelete,
                 storage, sends, voice, phase, loaded, closed, streamVars>>

(***************************************************************************)
(* The rest of an accepted call: the for-await loop over the stream, the   *)
(* title request, the catch and the finally block.                         *)
(***************************************************************************)
\* faulty variant, for testing the properties: results written to the active session
MutFinalSessionId(send, aid) == IF aid # NULL THEN aid ELSE send.sid

\* const finalSessionId = sessionId: the session of the call, whichever
\* session is active (aid) when a result arrives
FinalSessionId(send, aid) == send.sid

\* faulty variant, for testing the properties: a finally block that leaves the flag
MutFinallyBlock == isLoading' = isLoading

\* finally { setIsLoading(false); }
FinallyBlock == isLoading' = FALSE

\* the stream yields its next value
StreamYield(i) ==
  /\ i \in 1..Len(sends) /\ sends[i].pc = "stream"
  /\ Len(sends[i].last) < MaxDeltas
  /\ LET chunk == Accumulate(sends[i].last, DeltaOf(i))
     IN /\ Commit(UpdateSessionMessages(
                    chatSessions, FinalSessionId(sends[i], activeSessionId),
                    [kind |-> "content", arg |-> chunk]),
                  activeSessionId, TRUE)
        /\ sends' = [sends EXCEPT ![i].last = chunk]
  /\ UNCHANGED <<input, isLoading, sessionToDelete, voice, phase, loaded,
                 closed, streamVars>>

\* faulty variant, for testing the properties: a title for every exchange
MutAsksForTitle(send) == TRUE

\* if (isNewSession)
AsksForTitle(send) == send.isNew

\* the stream ends: a call that created its session asks for a title,
\* any other call reaches the finally block
StreamEnd(i) ==
  /\ i \in 1..Len(sends) /\ sends[i].pc = "stream"
  /\ IF AsksForTitle(sends[i])
       THEN /\ sends' = [sends EXCEPT ![i].pc = "title"]
            /\ UNCHANGED isLoading
       ELSE /\ sends' = [sends EXCEPT ![i] = Done]
            /\ FinallyBlock
  /\ UNCHANGED <<chatSessions, activeSessionId, input, sessionToDelete,
                 storage, voice, phase, loaded, closed, streamVars>>

\* the messages getTitleForChat is called with by call i
TitleArguments(i) ==
  <<UserMessage(sends[i].content), ModelMessage(sends[i].last)>>

\* faulty variant, for testing the properties: a title update that reaches every session
MutSetTitle(cs, sessionId, newTitle) ==
  [k \in 1..Len(cs) |-> [cs[k] EXCEPT !.title = newTitle]]

\* prev.map((s) => s.id === finalSessionId ? { ...s, title: newTitle } : s)
SetTitle(cs, sessionId, newTitle) ==
  [k \in 1..Len(cs) |->
     IF cs[k].id = sessionId THEN [cs[k] EXCEPT !.title = newTitle] ELSE cs[k]]

\* getTitleForChat resolves; then the finally block
TitleResolve(i) ==
  /\ i \in 1..Len(sends) /\ sends[i].pc = "title"
  /\ \E newTitle \in Titles :
       Commit(SetTitle(chatSessions,
                       FinalSessionId(sends[i], activeSessionId), newTitle),
              activeSessionId, TRUE)
  /\ sends' = [sends EXCEPT ![i] = Done]
  /\ FinallyBlock
  /\ UNCHANGED <<input, sessionToDelete, voice, phase, loaded, closed,
                 streamVars>>

\* the request or the stream throws: the catch block, then the finally block
StreamFail(i) ==
  /\ i \in 1..Len(sends) /\ sends[i].pc = "stream"
  /\ \E text \in Diagnostics :
       Commit(UpdateSessionMessages(
                chatSessions, FinalSessionId(sends[i], activeSessionId),
                [kind |-> "error", arg |-> text]),
              activeSessionId, TRUE)
  /\ sends' = [sends EXCEPT ![i] = Done]
  /\ FinallyBlock
  /\ UNCHANGED <<input, sessionToDelete, voice, phase, loaded, closed,
                 streamVars>>

(***************************************************************************)
(* The sidebar and the confirmation modal.                                 *)
(***************************************************************************)
CreateNewChat ==
  /\ input' = <<>>
  /\ Commit(chatSessions, NULL, FALSE)
  /\ UNCHANGED <<isLoading, sessionToDelete, sends, voice, phase, loaded,
                 closed>>

NewChatButton ==
  /\ phase = "ready" /\ ~ModalOpen
  /\ CreateNewChat
  /\ UNCHANGED streamVars

SelectChat ==
  /\ phase = "ready" /\ ~ModalOpen
  /\ \E id \in SessionIds(chatSessions) : Commit(chatSessions, id, FALSE)
  /\ UNCHANGED <<input, isLoading, sessionToDelete, sends, voice, phase,
                 loaded, closed, streamVars>>

RequestDeleteChat ==
  /\ phase = "ready" /\ ~ModalOpen
  /\ \E id \in SessionIds(chatSessions) : sessionToDelete' = id
  /\ UNCHANGED <<chatSessions, activeSessionId, input, isLoading, storage,
                 sends, voice, phase, loaded, closed, streamVars>>

\* faulty variant, for testing the properties: a filter that drops the first session
MutRemainingSessions(cs, id) == Tail(cs)

\* chatSessions.filter((s) => s.id !== sessionToDelete)
RemainingSessions(cs, id) == SelectSeq(cs, LAMBDA s : s.id # id)

\* faulty variant, for testing the properties: a deletion that leaves the active id
MutActiveAfterDelete(remainingSessions, aid, id) == aid

\* the active id after the session id was deleted while aid was active
ActiveAfterDelete(remainingSessions, aid, id) ==
  IF aid = id
    THEN IF Len(remainingSessions) > 0 THEN remainingSessions[1].id ELSE NULL
    ELSE aid

ConfirmDeleteChat ==
  /\ phase = "ready"
  /\ sessionToDelete # NULL
  /\ LET remainingSessions == RemainingSessions(chatSessions, sessionToDelete)
     IN Commit(remainingSessions,
               ActiveAfterDelete(remainingSessions, activeSessionId,
                                 sessionToDelete),
               TRUE)
  /\ sessionToDelete' = NULL
  /\ UNCHANGED <<input, isLoading, sends, voice, phase, loaded, closed,
                 streamVars>>

CancelDeleteChat ==
  /\ phase = "ready"
  /\ sessionToDelete # NULL
  /\ sessionToDelete' = NULL
  /\ UNCHANGED <<chatSessions, activeSessionId, input, isLoading, storage,
                 sends, voice, phase, loaded, closed, streamVars>>

(***************************************************************************)
(* Speech recognition: startListening installs onresult, which keeps the   *)
(* onCommand of the render in which the microphone button was clicked.     *)
(***************************************************************************)
StartListening ==
  /\ phase = "ready" /\ ~ModalOpen
  /\ ~voice.on
  /\ voice' = Captured(Rendered)
  /\ UNCHANGED <<chatSessions, activeSessionId, input, isLoading,
                 sessionToDelete, storage, sends, phase, loaded, closed,
                 streamVars>>

\* recognition.stop() and onend
StopListening ==
  /\ voice.on
  /\ voice' = NoVoice
  /\ UNCHANGED <<chatSessions, activeSessionId, input, isLoading,
                 sessionToDelete, storage, sends, phase, loaded, closed,
                 streamVars>>

\* onresult with 'send message' in the transcript: handleSendMessage(input)
VoiceSendMessage ==
  /\ voice.on
  /\ HandleSendMessage(voice, voice.input)
  /\ UNCHANGED streamVars

\* onresult with 'clear input' in the transcript
VoiceClearInput ==
  /\ voice.on
  /\ input' = <<>>
  /\ UNCHANGED <<chatSessions, activeSessionId, isLoading, sessionToDelete,
                 storage, sends, voice, phase, loaded, closed, streamVars>>

\* onresult with 'new chat' in the transcript
VoiceNewChat ==
  /\ voice.on
  /\ CreateNewChat
  /\ UNCHANGED streamVars

\* onresult without a command: the transcript effect sets the input
VoiceTranscript ==
  /\ voice.on
  /\ \E t \in Inputs \ {<<>>} : input' = t
  /\ UNCHANGED <<chatSessions, activeSessionId, isLoading, sessionToDelete,
                 storage, sends, voice, phase, loaded, closed, streamVars>>

(***************************************************************************)
(* Start-up and shut-down.                                                 *)
(***************************************************************************)
\* faulty variant, for testing the properties: a save effect declared before the load effect
MutReadAtMount(st, cs, aid) == SaveEffect(cs, aid)

\* the storage the load effect reads: the load effect is declared before
\* the save effect, so it runs first and reads what an earlier run has left
ReadAtMount(st, cs, aid) == st

\* the first render's effects: the load effect reads storage and calls the
\* setters, then the save effect runs with the initial, empty state
Mount ==
  /\ phase = "init"
  /\ ~LoadThrows(storage)
  /\ loaded' = LoadEffect(ReadAtMount(storage, chatSessions, activeSessionId))
  /\ storage' = SaveEffect(chatSessions, activeSessionId)
  /\ phase' = "loading"
  /\ UNCHANGED <<chatSessions, activeSessionId, input, isLoading,
                 sessionToDelete, sends, voice, closed, streamVars>>

\* the load effect throws and no error boundary is there: React unmounts the
\* root.  Whether the effects after the throwing one still run depends on
\* the React version: the save effect ran with the initial state, or not.
MountCrash ==
  /\ phase = "init"
  /\ LoadThrows(storage)
  /\ storage' \in {storage, SaveEffect(chatSessions, activeSessionId)}
  /\ phase' = "crashed"
  /\ UNCHANGED <<chatSessions, activeSessionId, input, isLoading,
                 sessionToDelete, sends, voice, loaded, closed, streamVars>>

\* the render with the loaded state, and its save effect
LoadCommit ==
  /\ phase = "loading"
  /\ Commit(loaded.sessions, loaded.active, TRUE)
  /\ phase' = "ready"
  /\ loaded' = NothingLoaded
  /\ closed' = NotClosed
  /\ UNCHANGED <<input, isLoading, sessionToDelete, sends, voice, streamVars>>

\* the page is closed and opened again: only storage survives
Reload ==
  /\ phase \in {"ready", "crashed"}
  /\ chatSessions' = <<>>
  /\ activeSessionId' = NULL
  /\ input' = <<>>
  /\ isLoading' = FALSE
  /\ sessionToDelete' = NULL
  /\ voice' = NoVoice
  /\ phase' = "init"
  /\ loaded' = NothingLoaded
  /\ sends' = [k \in 1..Len(sends) |-> Done]
  /\ closed' = [set |-> TRUE, sessions |-> chatSessions,
                active |-> activeSessionId]
  /\ UNCHANGED <<storage, streamVars>>

Next ==
  \/ Mount \/ MountCrash \/ LoadCommit \/ Reload
  \/ SendButton \/ EnterKey \/ WelcomePrompt \/ SetInput
  \/ \E i \in 1..MaxSends : StreamYield(i)
  \/ \E i \in 1..MaxSends : StreamEnd(i)
  \/ \E i \in 1..MaxSends : TitleResolve(i)
  \/ \E i \in 1..MaxSends : StreamFail(i)
  \/ NewChatButton \/ SelectChat \/ RequestDeleteChat
  \/ ConfirmDeleteChat \/ CancelDeleteChat
  \/ StartListening \/ StopListening
  \/ VoiceSendMessage \/ VoiceClearInput \/ VoiceNewChat \/ VoiceTranscript

Spec == Init /\ [][Next]_vars

\* a first visit: nothing is stored, or what is stored makes the load
\* effect throw
FairInit == Init /\ (storage.chatSessions = NoItem \/ LoadThrows(storage))

\* with fairness: the service settles every request, so a stream ends or
\* fails and the title request resolves (getTitleForChat catches every failure)
FairSpec ==
  /\ FairInit
  /\ [][Next]_vars
  /\ WF_vars(\E i \in 1..MaxSends :
               StreamEnd(i) \/ StreamFail(i) \/ TitleResolve(i))

(***************************************************************************)
(* The stream consumer alone, on every body of at most MaxRecords records, *)
(* delivered in every possible division into chunks.                       *)
(***************************************************************************)
Bodies ==
  {[records |-> rs, terminated |-> t, bytes |-> BytesOf(rs, t)] :
     rs \in UNION {[1..n -> RecordKinds] : n \in 0..MaxRecords},
     t \in BOOLEAN}

StreamInit ==
  /\ AppInitial
  /\ storage = [chatSessions |-> NoItem, activeSessionId |-> NoItem]
  /\ sends = <<>>
  /\ closed = NotClosed
  /\ body \in Bodies
  /\ gen = NewGenerator
  /\ http = NoCall

\* reader.read() resolves with a chunk of k bytes
ReadChunk ==
  /\ gen.status = "reading"
  /\ \E k \in 1..(Len(body.bytes) - gen.pos) :
       gen' = ProcessChunk([gen EXCEPT !.pos = @ + k],
                           SubSeq(body.bytes, gen.pos + 1, gen.pos + k))
  /\ UNCHANGED <<body, http, appVars>>

\* faulty variant, for testing the properties: an end that processes the buffered rest as a line
MutEndOfBody(g) == [ProcessLines(g, <<g.buffer>>) EXCEPT !.status = "ended"]

\* if (done) break: the generator ends, whatever the buffer still holds
EndOfBody(g) == [g EXCEPT !.status = "ended"]

\* reader.read() resolves with done: the loop breaks and the generator ends
ReadDone ==
  /\ gen.status = "reading"
  /\ gen.pos = Len(body.bytes)
  /\ gen' = EndOfBody(gen)
  /\ UNCHANGED <<body, http, appVars>>

\* reader.read() rejects: the error is rethrown to the caller
ReadError ==
  /\ gen.status = "reading"
  /\ gen' = [gen EXCEPT !.status = "failed"]
  /\ UNCHANGED <<body, http, appVars>>

StreamNext == ReadChunk \/ ReadDone \/ ReadError

StreamSpec == StreamInit /\ [][StreamNext]_vars

(***************************************************************************)
(* The service alone: one call of handleSendMessage from its try block on, *)
(* or one call of getTitleForChat, against every response of the           *)
(* transport.  Texts are strings here.                                     *)
(***************************************************************************)
Services == {"groqService", "openRouterService"}

\* const GROQ_API_KEY = 'gsk_...'
GROQ_API_KEY == "gsk"

\* the credential a service sends: groqService.ts has it as a constant,
\* openRouterService.ts reads process.env.GROQ_API_KEY (env; NULL when unset)
ApiKey(service, env) == IF service = "groqService" THEN GROQ_API_KEY ELSE env

\* faulty variant, for testing the properties: a service that never checks its credential
MutApiKeyMissing(service, env) == FALSE

\* if (!apiKey): only openRouterService.ts has the check
ApiKeyMissing(service, env) ==
  service = "openRouterService" /\ ApiKey(service, env) = NULL

ApiKeyNotFound ==
  "Groq API key not found. Please set the GROQ_API_KEY environment variable."
BodyIsEmpty == "API request succeeded but response body is empty."
FailedToFetch == "Failed to fetch"

\* response.text() of a body given by its tokens
TokenText(tok) == IF tok.t = "s" THEN "\"" \o tok.v \o "\"" ELSE tok.t

RECURSIVE TextOf(_)
TextOf(toks) ==
  IF toks = <<>> THEN "" ELSE TokenText(toks[1]) \o TextOf(Tail(toks))

StatusTexts == {"Unauthorized", ""}

\* the bodies of a response with a failure status
\* (an "error" member, where there is one, is an object)
ErrorBodies ==
  { <<>>,
    <<P("Bad Gateway")>>,
    <<P("{"), S("error"), P(":"), P("{"), S("message"), P(":"),
      S("invalid key"), P("}"), P("}")>>,
    <<P("{"), S("error"), P(":"), P("{"), S("message"), P(":"),
      S(""), P("}"), P("}")>>,
    <<P("{"), S("error"), P(":"), P("{"), P("}"), P("}")>>,
    <<P("{"), S("detail"), P(":"), S("rate limited"), P("}")>>,
    <<P("{"), P("}")>>,
    <<P("null")>> }

\* errorJson?.error?.message; "" stands for every falsy outcome
StructuredMessage(toks) ==
  LET errorJson == Parse(toks).val
  IN IF TokenAt(toks, 1) # "{" THEN ""
     ELSE IF "error" \notin DOMAIN errorJson THEN ""
     ELSE IF "message" \notin DOMAIN errorJson["error"] THEN ""
     ELSE errorJson["error"]["message"]

\* faulty variant, for testing the properties: an error that carries the status line only
MutHandleApiError(response) ==
  "Groq API Error: " \o ("API request failed: " \o response.statusText)

\* handleApiError(response): the message of the Error it throws
HandleApiError(response) ==
  LET errorText == TextOf(response.text)
      statusLine == "API request failed: " \o response.statusText
      errorMessage ==
        IF Parse(response.text).ok
          THEN IF StructuredMessage(response.text) # ""
                 THEN StructuredMessage(response.text)
                 ELSE statusLine
          ELSE IF errorText # "" THEN errorText ELSE statusLine
  IN "Groq API Error: " \o errorMessage

\* what response.json() gives getTitleForChat: it rejects ("invalid"),
\* data.choices is undefined ("nochoices"), data.choices is empty ("empty"),
\* or the first choice carries content
TitleData ==
  {[kind |-> "invalid", content |-> <<>>],
   [kind |-> "nochoices", content |-> <<>>],
   [kind |-> "empty", content |-> <<>>]}
  \cup {[kind |-> "content", content |-> c] :
          c \in {<<"T">>, <<" ", "T", NL>>, <<"\"", "T", "\"">>, <<"*">>, <<>>}}

\* .replace(/["'*]/g, '')
StripQuotes(s) == SelectSeq(s, LAMBDA c : c \notin {"\"", "'", "*"})

RECURSIVE Chars(_)
\* the string of a sequence of characters
Chars(s) == IF s = <<>> THEN "" ELSE s[1] \o Chars(Tail(s))

\* title || 'New Chat', for data that does not make the expression throw
TitleOf(data) ==
  LET title == IF data.kind = "content"
                 THEN Chars(StripQuotes(Trim(data.content))) ELSE ""
  IN IF title # "" THEN title ELSE NewChatTitle

\* the responses fetch can resolve with
Responses ==
  {[NoResponse EXCEPT !.ok = FALSE, !.statusText = st, !.text = t] :
     st \in StatusTexts, t \in ErrorBodies}
  \cup {[NoResponse EXCEPT !.statusText = "OK", !.body = b, !.data = d] :
          b \in BOOLEAN, d \in TitleData}

\* the exchange handleSendMessage has appended before its try block
SentContent == <<"h">>
StreamedContent == <<"a">>

\* the calls: handleSendMessage for a new session, at its try block, and
\* getTitleForChat with no messages or with one exchange
Calls ==
  {[NoCall EXCEPT !.service = sv, !.env = e, !.call = "handleSendMessage",
                  !.fn = "sendMessageStream", !.pc = "start",
                  !.messages = AppendExchange(<<>>, SentContent)] :
     sv \in Services, e \in {NULL, "key"}}
  \cup {[NoCall EXCEPT !.service = sv, !.env = e, !.call = "getTitleForChat",
                       !.fn = "getTitleForChat", !.pc = "start", !.arg = a] :
          sv \in Services, e \in {NULL, "key"},
          a \in {<<>>, <<UserMessage(SentContent),
                         ModelMessage(StreamedContent)>>}}

TransportInit ==
  /\ AppInitial
  /\ storage = [chatSessions |-> NoItem, activeSessionId |-> NoItem]
  /\ sends = <<>>
  /\ closed = NotClosed
  /\ body = [records |-> <<>>, terminated |-> TRUE, bytes |-> <<>>]
  /\ gen = NewGenerator
  /\ http \in Calls

\* an Error with this message is thrown out of sendMessageStream
Throw(h, message) == [h EXCEPT !.pc = "catch", !.error = message]

\* return title, out of getTitleForChat
Return(h, title) == [h EXCEPT !.pc = "returned", !.title = title]

\* faulty variant, for testing the properties: a getTitleForChat that lets the failure out
MutTitleCatch(h, message) == Throw(h, message)

\* getTitleForChat's catch block: return 'New Chat'
TitleCatch(h, message) == Return(h, NewChatTitle)

\* sendMessageStream starts: the credential check, where the service has one
SendStart ==
  /\ http.fn = "sendMessageStream" /\ http.pc = "start"
  /\ http' = IF ApiKeyMissing(http.service, http.env)
               THEN Throw(http, ApiKeyNotFound)
               ELSE [http EXCEPT !.pc = "fetch"]
  /\ UNCHANGED <<appVars, body, gen>>

\* getTitleForChat starts: no messages, no credential, or the request
TitleStart ==
  /\ http.fn = "getTitleForChat" /\ http.pc = "start"
  /\ http' = IF Len(http.arg) = 0 THEN Return(http, NewChatTitle)
             ELSE IF ApiKeyMissing(http.service, http.env)
               THEN Return(http, NewChatTitle)
             ELSE [http EXCEPT !.pc = "fetch"]
  /\ UNCHANGED <<appVars, body, gen>>

\* await fetch(...) resolves with a response
FetchResolves ==
  /\ http.pc = "fetch"
  /\ \E r \in Responses :
       http' = [http EXCEPT !.pc = "response", !.response = r,
                            !.requests = @ + 1]
  /\ UNCHANGED <<appVars, body, gen>>

\* await fetch(...) rejects: the network is down
FetchRejects ==
  /\ http.pc = "fetch"
  /\ LET sent == [http EXCEPT !.requests = @ + 1]
     IN http' = IF http.fn = "sendMessageStream"
                  THEN Throw(sent, FailedToFetch)
                  ELSE TitleCatch(sent, FailedToFetch)
  /\ UNCHANGED <<appVars, body, gen>>

\* if (!response.ok) await handleApiError(response)
ResponseNotOk ==
  /\ http.pc = "response" /\ ~http.response.ok
  /\ http' = IF http.fn = "sendMessageStream"
               THEN Throw(http, HandleApiError(http.response))
               ELSE TitleCatch(http, HandleApiError(http.response))
  /\ UNCHANGED <<appVars, body, gen>>

\* if (!response.body) throw
ResponseBodyEmpty ==
  /\ http.fn = "sendMessageStream"
  /\ http.pc = "response" /\ http.response.ok /\ ~http.response.body
  /\ http' = Throw(http, BodyIsEmpty)
  /\ UNCHANGED <<appVars, body, gen>>

\* the body is streamed to its end: the placeholder gets the text, and
\* getTitleForChat is called with the exchange (the session is new)
ResponseStreams ==
  /\ http.fn = "sendMessageStream"
  /\ http.pc = "response" /\ http.response.ok /\ http.response.body
  /\ http' = [http EXCEPT
                !.messages = SetTrailingContent(@, StreamedContent),
                !.fn = "getTitleForChat", !.pc = "start",
                !.arg = <<UserMessage(SentContent),
                          ModelMessage(StreamedContent)>>]
  /\ UNCHANGED <<appVars, body, gen>>

\* reader.read() rejects while the body is streamed
ResponseBreaks ==
  /\ http.fn = "sendMessageStream"
  /\ http.pc = "response" /\ http.response.ok /\ http.response.body
  /\ http' = Throw(http, FailedToFetch)
  /\ UNCHANGED <<appVars, body, gen>>

\* const data = await response.json(); ... return title || 'New Chat'
TitleResponse ==
  /\ http.fn = "getTitleForChat"
  /\ http.pc = "response" /\ http.response.ok
  /\ http' = IF http.response.data.kind \in {"invalid", "nochoices"}
               THEN TitleCatch(http, "TypeError")
               ELSE Return(http, TitleOf(http.response.data))
  /\ UNCHANGED <<appVars, body, gen>>

\* handleSendMessage gets the title: setChatSessions(... title: newTitle ...),
\* then the finally block
TitleReturned ==
  /\ http.call = "handleSendMessage" /\ http.pc = "returned"
  /\ http' = [http EXCEPT !.sessionTitle = http.title, !.pc = "done"]
  /\ UNCHANGED <<appVars, body, gen>>

\* handleSendMessage's catch block, then the finally block
CatchBlock ==
  /\ http.call = "handleSendMessage" /\ http.pc = "catch"
  /\ http' = [http EXCEPT !.messages = SetTrailingError(@, http.error),
                          !.pc = "done"]
  /\ UNCHANGED <<appVars, body, gen>>

TransportNext ==
  \/ SendStart \/ TitleStart \/ FetchResolves \/ FetchRejects
  \/ ResponseNotOk \/ ResponseBodyEmpty \/ ResponseStreams \/ ResponseBreaks
  \/ TitleResponse \/ TitleReturned \/ CatchBlock

TransportSpec == TransportInit /\ [][TransportNext]_vars

(***************************************************************************)
(* One exchange end to end: handleSendMessage for a new session consumes   *)
(* sendMessageStream with for await, over every body and every division    *)
(* into chunks, and then asks for the title.                               *)
(***************************************************************************)
\* the call at the point where fetch has resolved with a streaming body
StreamingCall ==
  [NoCall EXCEPT !.call = "handleSendMessage", !.fn = "sendMessageStream",
                 !.pc = "response", !.requests = 1,
                 !.response = [NoResponse EXCEPT !.statusText = "OK",
                                                 !.body = TRUE],
                 !.messages = AppendExchange(<<>>, SentContent)]

ExchangeInit ==
  /\ AppInitial
  /\ storage = [chatSessions |-> NoItem, activeSessionId |-> NoItem]
  /\ sends = <<>>
  /\ closed = NotClosed
  /\ body \in Bodies
  /\ gen = NewGenerator
  /\ http = StreamingCall

RECURSIVE ApplyYields(_, _)
\* the loop body of for await, run for each value the generator yields
ApplyYields(messages, values) ==
  IF values = <<>> THEN messages
  ELSE ApplyYields(SetTrailingContent(messages, Head(values)), Tail(values))

\* let lastFullResponse = ''; ... lastFullResponse = chunk
LastFullResponse(g) ==
  IF g.emitted = <<>> THEN <<>> ELSE g.emitted[Len(g.emitted)]

\* faulty variant, for testing the properties: a consumer that demands the sentinel
MutCompletion(g) == IF g.status = "returned" THEN "completes" ELSE "throws"

\* how for await sees the generator finish: the return at the sentinel and
\* the break at the end of the transport both complete the loop, a rejected
\* read is rethrown into it
Completion(g) == IF g.status = "failed" THEN "throws" ELSE "completes"

\* reader.read() resolves with a chunk of k bytes; the loop body of
\* handleSendMessage runs for the values yielded from it
ExchangeRead ==
  /\ http.fn = "sendMessageStream" /\ http.pc = "response"
  /\ gen.status = "reading"
  /\ \E k \in 1..(Len(body.bytes) - gen.pos) :
       LET g == ProcessChunk([gen EXCEPT !.pos = @ + k],
                             SubSeq(body.bytes, gen.pos + 1, gen.pos + k))
       IN /\ gen' = g
          /\ http' = [http EXCEPT !.messages =
                        ApplyYields(@, SubSeq(g.emitted, Len(gen.emitted) + 1,
                                              Len(g.emitted)))]
  /\ UNCHANGED <<body, appVars>>

\* reader.read() resolves with done: break
ExchangeDone ==
  /\ http.fn = "sendMessageStream" /\ http.pc = "response"
  /\ gen.status = "reading"
  /\ gen.pos = Len(body.bytes)
  /\ gen' = EndOfBody(gen)
  /\ UNCHANGED <<body, http, appVars>>

\* reader.read() rejects
ExchangeError ==
  /\ http.fn = "sendMessageStream" /\ http.pc = "response"
  /\ gen.status = "reading"
  /\ gen' = [gen EXCEPT !.status = "failed"]
  /\ UNCHANGED <<body, http, appVars>>

\* the loop is over: if (isNewSession) getTitleForChat(finalMessagesForTitle)
LoopCompletes ==
  /\ http.fn = "sendMessageStream" /\ http.pc = "response"
  /\ gen.status # "reading"
  /\ Completion(gen) = "completes"
  /\ http' = [http EXCEPT
                !.fn = "getTitleForChat", !.pc = "start",
                !.arg = <<UserMessage(SentContent),
                          ModelMessage(LastFullResponse(gen))>>]
  /\ UNCHANGED <<body, gen, appVars>>

\* the loop rethrows the error of the stream
LoopThrows ==
  /\ http.fn = "sendMessageStream" /\ http.pc = "response"
  /\ gen.status # "reading"
  /\ Completion(gen) = "throws"
  /\ http' = Throw(http, FailedToFetch)
  /\ UNCHANGED <<body, gen, appVars>>

ExchangeNext ==
  \/ ExchangeRead \/ ExchangeDone \/ ExchangeError
  \/ LoopCompletes \/ LoopThrows
  \/ TitleStart \/ FetchResolves \/ FetchRejects \/ ResponseNotOk
  \/ TitleResponse \/ TitleReturned \/ CatchBlock

ExchangeSpec == ExchangeInit /\ [][ExchangeNext]_vars

(***************************************************************************)
(* Properties of the stream consumer (StreamSpec).                         *)
(***************************************************************************)
Finished == gen.status \in {"ended", "returned"}

IsPrefix(s, t) == Len(s) <= Len(t) /\ SubSeq(t, 1, Len(s)) = s

\* what the consumer emits when the whole body arrives as a single chunk
EmittedInOneChunk == ProcessChunk(NewGenerator, body.bytes).emitted

\* C2: however the body is divided into chunks, in the middle of a line or of
\* a character or not, the values emitted are those emitted for the undivided
\* body: a prefix of them while the body is read, all of them at its end.
C2_FragmentationInvariance ==
  /\ IsPrefix(gen.emitted, EmittedInOneChunk)
  /\ Finished => gen.emitted = EmittedInOneChunk

\* a body read to its end in chunks that cut a character and a line
C2_Witness ==
  /\ Finished
  /\ gen.splitChar /\ gen.splitLine
  /\ Len(gen.emitted) >= 2

\* the delta a record carries
DeltaText(kind) ==
  CASE kind = "deltaA" -> <<"a">>
    [] kind = "deltaE" -> <<"é">>
    [] OTHER -> <<>>

\* the non-empty deltas of the body's complete lines before the sentinel
CarriedDeltas ==
  LET rs == body.records
      complete == IF body.terminated \/ rs = <<>> THEN rs
                  ELSE SubSeq(rs, 1, Len(rs) - 1)
      stop == FirstIndexOf(complete, "done")
      live == IF stop = 0 THEN complete ELSE SubSeq(complete, 1, stop - 1)
  IN SelectSeq([k \in 1..Len(live) |-> DeltaText(live[k])],
               LAMBDA d : d # <<>>)

RECURSIVE ConcatFirst(_, _)
ConcatFirst(ds, n) == IF n = 0 THEN <<>> ELSE ConcatFirst(ds, n - 1) \o ds[n]

\* C3: the n-th value emitted is the concatenation of the first n non-empty
\* deltas; records without a delta emit nothing; when the stream ends
\* normally the last value emitted is the whole response text.
C3_RunningConcatenation ==
  /\ Len(gen.emitted) <= Len(CarriedDeltas)
  /\ \A n \in 1..Len(gen.emitted) :
       gen.emitted[n] = ConcatFirst(CarriedDeltas, n)
  /\ Finished =>
       /\ Len(gen.emitted) = Len(CarriedDeltas)
       /\ gen.acc = ConcatFirst(CarriedDeltas, Len(CarriedDeltas))

\* two deltas read to the end, the second emitted as the text of both
C3_Witness ==
  /\ gen.status = "ended"
  /\ body.records = <<"deltaA", "deltaE">>
  /\ gen.emitted = << <<"a">>, <<"a", "é">> >>

(***************************************************************************)
(* Properties of the session controller and the session store (Spec).      *)
(***************************************************************************)
SomeInFlight == \E i \in 1..Len(sends) : InFlight(i)

\* handleSendMessage is called, by any of its four triggers
SendCall == SendButton \/ EnterKey \/ WelcomePrompt \/ VoiceSendMessage

\* C1: a call of handleSendMessage while an earlier call has not finished
\* changes neither the collection, nor a message list, nor the active id, and
\* starts no second send.
C1_ReentrantSendIsNoOp ==
  [][(SomeInFlight /\ SendCall) =>
       UNCHANGED <<chatSessions, activeSessionId, sends>>]_vars

\* what a send call was called with, when the step accepted it
Accepted(content) ==
  /\ SendCall
  /\ Len(sends') = Len(sends) + 1
  /\ sends'[Len(sends')].content = content

Exchange(content) == <<UserMessage(content), ModelMessage(<<>>)>>

\* C4: an accepted send with no active session prepends exactly one new
\* session titled 'New Chat' and makes it active; every accepted send appends
\* user(content) and an empty model message to the end of its target, the new
\* session or the session that was active, and changes nothing else.
C4_AcceptedSendEffect ==
  [][\A content \in Inputs \cup Prompts :
       Accepted(content) =>
         IF activeSessionId = NULL
           THEN /\ Len(chatSessions') = Len(chatSessions) + 1
                /\ chatSessions'[1].id \notin SessionIds(chatSessions)
                /\ chatSessions'[1].title = NewChatTitle
                /\ chatSessions'[1].messages = Exchange(content)
                /\ activeSessionId' = chatSessions'[1].id
                /\ \A k \in 1..Len(chatSessions) :
                     chatSessions'[k + 1] = chatSessions[k]
           ELSE /\ activeSessionId \in SessionIds(chatSessions)
                /\ activeSessionId' = activeSessionId
                /\ Len(chatSessions') = Len(chatSessions)
                /\ \A k \in 1..Len(chatSessions) :
                     chatSessions'[k] =
                       IF chatSessions[k].id = activeSessionId
                         THEN [chatSessions[k] EXCEPT
                                 !.messages = @ \o Exchange(content)]
                         ELSE chatSessions[k]]_vars

\* the last two messages of a list of at least two
LastTwo(messages) == SubSeq(messages, Len(messages) - 1, Len(messages))

\* C5: when the stream of an accepted send ends normally, the send's session
\* (if it still exists) ends with user(content), model(last value emitted);
\* a send that created its session then calls the title generator once, with
\* exactly these two messages, and the title it resolves to overwrites the
\* title of that session and nothing else.
C5_NormalCompletion ==
  [][\A i \in 1..MaxSends :
       /\ StreamEnd(i) =>
            /\ sends[i].sid \in SessionIds(chatSessions) =>
                 LET messages == MessagesOf(chatSessions, sends[i].sid)
                 IN /\ Len(messages) >= 2
                    /\ LastTwo(messages) =
                         <<UserMessage(sends[i].content),
                           ModelMessage(sends[i].last)>>
            /\ sends[i].isNew <=> sends'[i].pc = "title"
       /\ TitleResolve(i) =>
            /\ sends[i].isNew /\ sends'[i] = Done
            /\ Len(chatSessions') = Len(chatSessions)
            /\ \A k \in 1..Len(chatSessions) :
                 /\ chatSessions[k].id # sends[i].sid =>
                      chatSessions'[k] = chatSessions[k]
                 /\ chatSessions[k].id = sends[i].sid =>
                      /\ chatSessions'[k].title \in Titles
                      /\ chatSessions'[k] =
                           [chatSessions[k] EXCEPT
                              !.title = chatSessions'[k].title]]_vars

\* C6: a send that fails, at any point of its stream, replaces the trailing
\* placeholder of its session (if the session still exists) by one error
\* message with the diagnostic; the user's message before it stays and the
\* number of messages does not change.
C6_FailureReplacesPlaceholder ==
  [][\A i \in 1..MaxSends :
       (StreamFail(i) /\ sends[i].sid \in SessionIds(chatSessions)) =>
         LET before == MessagesOf(chatSessions, sends[i].sid)
             after == MessagesOf(chatSessions', sends[i].sid)
         IN /\ Len(before) >= 2
            /\ LastTwo(before) = <<UserMessage(sends[i].content),
                                   ModelMessage(sends[i].last)>>
            /\ Len(after) = Len(before)
            /\ after[Len(after)].role = "error"
            /\ after[Len(after)].content \in Diagnostics
            /\ \A k \in 1..(Len(after) - 1) : after[k] = before[k]]_vars

\* call i leaves handleSendMessage in this step
Finishes(i) ==
  /\ i \in 1..Len(sends)
  /\ sends[i].pc \in {"stream", "title"}
  /\ sends'[i] = Done

\* a call of handleSendMessage that returns at its first line
RejectedCall ==
  \/ EnterKey /\ SendRejected(Rendered, input)
  \/ VoiceSendMessage /\ SendRejected(voice, voice.input)

\* C7: every accepted send eventually finishes (whenever sends are in flight,
\* a state with none in flight follows); the step in which a send finishes,
\* by success or by failure, leaves the in-flight flag false; a rejected call
\* leaves the flag as it was.
C7_FlagCleared ==
  /\ SomeInFlight ~> ~SomeInFlight
  /\ [][\A i \in 1..MaxSends : Finishes(i) => ~isLoading']_vars
  /\ [][RejectedCall => isLoading' = isLoading]_vars

\* a send has failed and finished: its error message is the last of its
\* session and the flag is false
C7_Witness ==
  /\ phase = "ready" /\ ~isLoading
  /\ Len(sends) = 1 /\ sends[1] = Done
  /\ Len(chatSessions) = 1
  /\ chatSessions[1].id = "s1"
  /\ chatSessions[1].messages =
       <<UserMessage(<<"h">>), ErrorMessage(<<"E">>)>>

\* content is empty or consists of whitespace only
IsBlank(content) == \A k \in 1..Len(content) : content[k] \in WhiteSpace

\* handleSendMessage is called with blank content: by the Enter key on a
\* blank input, or by the voice command on a blank captured input
BlankSendCall ==
  \/ EnterKey /\ IsBlank(input)
  \/ VoiceSendMessage /\ IsBlank(voice.input)

\* C8: a send call whose content is empty or whitespace only changes nothing:
\* no session, no message, no input, no flag, no storage, and no request.
C8_BlankSendChangesNothing ==
  [][BlankSendCall =>
       UNCHANGED <<chatSessions, activeSessionId, input, isLoading,
                   sessionToDelete, storage, sends>>]_vars

\* the input holds a space only, the textarea is enabled and a session with
\* messages is open: Enter calls handleSendMessage(" ")
C8_Witness ==
  /\ phase = "ready" /\ ~ModalOpen /\ ~isLoading
  /\ input = <<" ">>
  /\ ENABLED EnterKey
  /\ activeSessionId \in SessionIds(chatSessions)
  /\ Len(sends) > 0

\* C9: a non-empty collection with its active id, once the page is closed and
\* opened again, is restored equal, field by field and in order, and the
\* active id is restored whenever it names a session of the collection.
C9_PersistenceRoundTrip ==
  [][(LoadCommit /\ closed.set /\ Len(closed.sessions) > 0) =>
       /\ chatSessions' = closed.sessions
       /\ closed.active \in SessionIds(closed.sessions) =>
            activeSessionId' = closed.active]_vars

\* the page was closed with two sessions, the second of them active, and
\* the load effect has read them back
C9_Witness ==
  /\ phase = "loading" /\ closed.set
  /\ Len(closed.sessions) = 2
  /\ closed.active = closed.sessions[2].id
  /\ loaded.sessions = closed.sessions
  /\ loaded.active = closed.active

\* what the two storage keys hold for the collection cs and the active id aid
Mirror(cs, aid) ==
  IF Len(cs) > 0
    THEN [chatSessions |-> Item(Stringify(cs)),
          activeSessionId |-> IF aid # NULL THEN Item(aid) ELSE NoItem]
    ELSE [chatSessions |-> NoItem, activeSessionId |-> NoItem]

\* C10: once the effects of a change have run, the storage mirrors the state:
\* a non-empty collection is stored whole under 'chatSessions' and the active
\* id under 'activeSessionId' (absent when there is none); with an empty
\* collection both keys are absent.
C10_StorageMirrorsState ==
  phase \in {"loading", "ready"} =>
    /\ storage = Mirror(chatSessions, activeSessionId)
    /\ storage.chatSessions.has =>
         Parse(storage.chatSessions.v).val = chatSessions

\* a stream is in flight in a new chat, another session exists, and the
\* storage holds both sessions with the partial text
C10_Witness ==
  /\ phase = "ready"
  /\ Len(chatSessions) = 2
  /\ SomeInFlight
  /\ activeSessionId = chatSessions[1].id
  /\ chatSessions[1].messages = <<UserMessage(<<"h">>), ModelMessage(<<"a">>)>>
  /\ storage.chatSessions = Item(Stringify(chatSessions))
  /\ storage.activeSessionId = Item(activeSessionId)

\* C11: confirming the deletion of the only remaining session leaves an empty
\* collection, no active session, and neither key in the storage.
C11_DeleteLastSession ==
  [][(ConfirmDeleteChat /\ Len(chatSessions) = 1
        /\ chatSessions[1].id = sessionToDelete) =>
       /\ chatSessions' = <<>>
       /\ activeSessionId' = NULL
       /\ ~storage'.chatSessions.has
       /\ ~storage'.activeSessionId.has]_vars

\* the only session, which is active and has a finished exchange, is about
\* to be deleted: the modal is open on it
C11_Witness ==
  /\ phase = "ready"
  /\ Len(chatSessions) = 1
  /\ sessionToDelete = chatSessions[1].id
  /\ activeSessionId = chatSessions[1].id
  /\ storage.chatSessions.has /\ storage.activeSessionId.has
  /\ ENABLED ConfirmDeleteChat

\* cs without the session at position k
WithoutAt(cs, k) ==
  [j \in 1..(Len(cs) - 1) |-> IF j < k THEN cs[j] ELSE cs[j + 1]]

\* C12: a confirmed deletion of session s removes exactly s and keeps the
\* content and the order of the others; if s was active the first remaining
\* session becomes active, or none when no session remains; otherwise the
\* active id is unchanged.
C12_DeletionRemovesExactlyOne ==
  [][ConfirmDeleteChat =>
       \E k \in 1..Len(chatSessions) :
         /\ chatSessions[k].id = sessionToDelete
         /\ chatSessions' = WithoutAt(chatSessions, k)
         /\ activeSessionId' =
              IF activeSessionId # sessionToDelete THEN activeSessionId
              ELSE IF Len(chatSessions) > 1 THEN chatSessions'[1].id
              ELSE NULL]_vars

\* the second of three sessions, the active one, is about to be deleted
C12_Witness ==
  /\ phase = "ready"
  /\ Len(chatSessions) = 3
  /\ sessionToDelete = chatSessions[2].id
  /\ activeSessionId = sessionToDelete
  /\ ENABLED ConfirmDeleteChat

\* the active id the start-up is to choose for the restored collection cs
\* and the stored item saved
RestoredActive(cs, saved) ==
  IF Len(cs) = 0 THEN NULL
  ELSE IF saved.has /\ (\E k \in 1..Len(cs) : cs[k].id = saved.v)
    THEN saved.v
  ELSE cs[1].id

\* C13: after the start-up has loaded a stored collection, the active id is
\* the stored active id if it names a session of the restored collection,
\* otherwise the id of the first restored session, and none if the restored
\* collection is empty.
C13_RestoreActive ==
  [][/\ Mount =>
          loaded'.active = RestoredActive(loaded'.sessions,
                                          storage.activeSessionId)
     /\ LoadCommit =>
          /\ chatSessions' = loaded.sessions
          /\ activeSessionId' = loaded.active]_vars

\* the page was closed on a new chat with two sessions stored: no active id
\* was stored and the load effect has chosen the first session
C13_Witness ==
  /\ phase = "loading" /\ closed.set
  /\ Len(closed.sessions) = 2
  /\ closed.active = NULL
  /\ loaded.sessions = closed.sessions
  /\ loaded.active = closed.sessions[1].id

\* the item holds a text that is not the serialization of a collection
Malformed(item) ==
  /\ item.has
  /\ ~(Parse(item.v).ok /\ IsArray(item.v))

\* C14: whatever the 'chatSessions' key holds that is not a well-formed
\* serialized collection, the start-up completes without a thrown error, with
\* zero sessions and no active session.
C14_MalformedNeverFatal ==
  [][(phase = "init" /\ phase' # "init" /\ Malformed(storage.chatSessions)) =>
       /\ phase' = "loading"
       /\ loaded'.sessions = <<>>
       /\ loaded'.active = NULL]_vars

(***************************************************************************)
(* Further properties of the stream consumer (StreamSpec).                 *)
(***************************************************************************)
\* the position in the body of the newline that ends record k; beyond the
\* body's end when the record is the last one and has no newline
EndOfRecord(k) ==
  LET through == Len(BytesOf(SubSeq(body.records, 1, k), TRUE))
  IN IF k = Len(body.records) /\ ~body.terminated THEN through + 1
     ELSE through

\* the number of records before record k that carry a non-empty delta
DeltasBefore(k) ==
  Cardinality({j \in 1..(k - 1) : DeltaText(body.records[j]) # <<>>})

\* C15: once the line of a 'data: [DONE]' record has been read, the sequence
\* has ended normally, without an error; what was emitted comes from the
\* records before the first sentinel only, whether the records after it
\* arrived in the same chunk or would arrive in a later one.
C15_SentinelTermination ==
  LET stop == FirstIndexOf(body.records, "done")
  IN /\ (stop # 0 /\ gen.pos >= EndOfRecord(stop)) =>
          /\ gen.status = "returned"
          /\ Len(gen.emitted) = DeltasBefore(stop)
     /\ gen.status = "returned" =>
          stop # 0 /\ gen.pos >= EndOfRecord(stop)

\* the sentinel and a delta after it arrived in one chunk: nothing is emitted
C15_Witness ==
  /\ body.records = <<"done", "deltaA">>
  /\ body.terminated
  /\ gen.pos = Len(body.bytes)
  /\ gen.status = "returned"
  /\ gen.emitted = <<>>

\* a line the consumer is to ignore: no 'data: ' prefix, or a payload that
\* does not parse
Insignificant(kind) == kind \in {"other", "blank", "bad"}

\* the body with its insignificant lines removed; when the last line has no
\* newline and is removed, the lines left all have theirs
CleanedBytes ==
  LET rs == body.records
      kept == SelectSeq(rs, LAMBDA kind : ~Insignificant(kind))
      lastRemoved == rs # <<>> /\ Insignificant(rs[Len(rs)])
  IN BytesOf(kept, body.terminated \/ lastRemoved)

\* C16: lines without the 'data: ' prefix and records whose payload does not
\* parse are skipped and do not end the stream: the values emitted are those
\* emitted for the body without these lines, a prefix of them while the body
\* is read and all of them at its end.
C16_InsignificantInputTransparent ==
  LET clean == ProcessChunk(NewGenerator, CleanedBytes).emitted
  IN /\ IsPrefix(gen.emitted, clean)
     /\ Finished => gen.emitted = clean

\* a record that does not parse, then a delta, read to the end
C16_Witness ==
  /\ body.records = <<"bad", "deltaA">>
  /\ gen.status = "ended"
  /\ gen.emitted = << <<"a">> >>

(***************************************************************************)
(* C17  Transport-error diagnostic precedence.                             *)
(***************************************************************************)
\* sendMessageStream has thrown after fetch resolved with a response
SendFailedOnResponse ==
  /\ http.fn = "sendMessageStream"
  /\ http.pc \in {"catch", "done"}
  /\ http.response # NoResponse

\* the diagnostic of the precedence chain: the structured message where the
\* body has one, else the raw body where there is one, else the status line
ChainDiagnostic(response) ==
  IF Parse(response.text).ok /\ StructuredMessage(response.text) # ""
    THEN StructuredMessage(response.text)
  ELSE IF TextOf(response.text) # ""
    THEN TextOf(response.text)
  ELSE "API request failed: " \o response.statusText

\* the body parses as JSON and holds no structured message
ParsesWithoutMessage(response) ==
  Parse(response.text).ok /\ StructuredMessage(response.text) = ""

\* C17: when a send fails on a response with a failure status, the error
\* carries the structured message of the body, else the raw body, else the
\* status line; and a response with a success status and no body fails the
\* send as well.
C17_DiagnosticPrecedence ==
  SendFailedOnResponse =>
    /\ ~http.response.ok =>
          http.error = "Groq API Error: " \o ChainDiagnostic(http.response)
    /\ (http.response.ok /\ ~http.response.body) => http.error = BodyIsEmpty

(***************************************************************************)
(* C18  Missing credential.                                                *)
(***************************************************************************)
\* the service has a credential to check and it is absent
CredentialAbsent == ApiKey(http.service, http.env) = NULL

\* C18: with the credential absent no request is ever made; a send ends
\* with the error message that names the missing credential in the trailing
\* slot, after the user's message; getTitleForChat returns 'New Chat' and
\* does not throw.
C18_MissingCredential ==
  CredentialAbsent =>
    /\ http.requests = 0
    /\ http.pc \notin {"fetch", "response"}
    /\ (http.call = "handleSendMessage" /\ http.pc = "done") =>
          /\ http.messages =
                <<UserMessage(SentContent), ErrorMessage(ApiKeyNotFound)>>
          /\ ApiKeyNotFound # ""
    /\ (http.call = "getTitleForChat" /\ http.pc # "start") =>
          /\ http.pc = "returned"
          /\ http.title = NewChatTitle

\* a send without credential has ended
C18_Witness ==
  /\ CredentialAbsent
  /\ http.call = "handleSendMessage"
  /\ http.pc = "done"
  /\ http.messages[Len(http.messages)].role = "error"

\* getTitleForChat without credential has returned for an exchange
C18_TitleWitness ==
  /\ CredentialAbsent
  /\ http.call = "getTitleForChat"
  /\ Len(http.arg) > 0
  /\ http.pc = "returned"

(***************************************************************************)
(* C19  Title generation never fails outward.                              *)
(***************************************************************************)
\* the request of getTitleForChat was made and failed: fetch rejected, the
\* status is a failure, or the body is not the JSON of a completion
TitleRequestFailed ==
  /\ http.fn = "getTitleForChat"
  /\ http.requests > 0
  /\ http.pc \notin {"fetch", "response"}
  /\ \/ http.response = NoResponse
     \/ ~http.response.ok
     \/ http.response.data.kind \in {"invalid", "nochoices"}

\* C19: getTitleForChat never throws; it returns 'New Chat' when it is
\* given no messages, when the credential is absent and when its request
\* fails; and a send whose title request failed ends with the completed
\* model message in the trailing slot, not with an error message.
C19_TitleNeverFailsOutward ==
  http.fn = "getTitleForChat" =>
    /\ http.pc # "catch"
    /\ (/\ http.pc \in {"returned", "done"}
        /\ Len(http.arg) = 0 \/ CredentialAbsent \/ TitleRequestFailed) =>
          http.title = NewChatTitle
    /\ (http.call = "handleSendMessage" /\ http.pc = "done") =>
          /\ http.messages = <<UserMessage(SentContent),
                               ModelMessage(StreamedContent)>>
          /\ http.sessionTitle = http.title

\* a send has ended after its title request failed
C19_Witness ==
  /\ http.call = "handleSendMessage"
  /\ http.pc = "done"
  /\ TitleRequestFailed
  /\ http.messages[Len(http.messages)].role = "model"

(***************************************************************************)
(* C20  The title is rewritten once, after the first exchange.             *)
(***************************************************************************)
\* call i waits for its title: its stream has ended
AwaitsTitle(i) == i \in 1..Len(sends) /\ sends[i].pc = "title"

\* the title of session id in cs
TitleIn(cs, id) == FindSession(cs, id).title

\* C20: a session is created with the title 'New Chat'; its title is
\* rewritten only by the call that created it, after the stream of that
\* first exchange has ended and while the title is still 'New Chat'; that
\* call is then done for good, so no later exchange rewrites the title; and
\* a call that waits for its title does get it (unless the page is left).
C20_TitleRewrittenOnce ==
  /\ [][\A id \in SessionIds(chatSessions') \ SessionIds(chatSessions) :
          ~LoadCommit => TitleIn(chatSessions', id) = NewChatTitle]_vars
  /\ [][\A i \in 1..MaxSends : TitleResolve(i) =>
          /\ sends[i].isNew
          /\ sends[i].sid = NewId(i)
          /\ sends[i].sid \in SessionIds(chatSessions) =>
                TitleIn(chatSessions, sends[i].sid) = NewChatTitle
          /\ sends'[i] = Done]_vars
  /\ [][\A id \in SessionIds(chatSessions') \cap SessionIds(chatSessions) :
          TitleIn(chatSessions', id) # TitleIn(chatSessions, id) =>
            \E i \in 1..MaxSends : TitleResolve(i) /\ sends[i].sid = id]_vars
  /\ [][\A i \in 1..Len(sends) :
          /\ sends[i] = Done => sends'[i] = Done
          /\ (AwaitsTitle(i) /\ ~AwaitsTitle(i)') => TitleResolve(i) \/ Reload]_vars
  /\ \A i \in 1..MaxSends : AwaitsTitle(i) ~> ~AwaitsTitle(i)

\* the title of a session was rewritten after its first exchange, and a
\* second exchange of the session has completed since
C20_Witness ==
  /\ Len(sends) = 2 /\ sends[1] = Done /\ sends[2] = Done
  /\ Len(chatSessions) = 1
  /\ chatSessions[1].id = "s1"
  /\ chatSessions[1].title = "T"
  /\ Len(chatSessions[1].messages) = 4
  /\ chatSessions[1].messages[4].role = "model"

(***************************************************************************)
(* C21  Voice commands and their UI actions.                               *)
(***************************************************************************)
\* the variables other than the input are left as they are
OnlyInputChanges ==
  UNCHANGED <<chatSessions, activeSessionId, isLoading, sessionToDelete,
              storage, sends, voice, phase, loaded, closed>>

\* C21: a step made by the voice command 'send message' is the step that
\* handleSendMessage makes with the current input text and the current
\* state; 'clear input' empties the input and changes nothing else; 'new
\* chat' is the step of the New Chat button.
C21_VoiceEquivalence ==
  [][/\ VoiceSendMessage => HandleSendMessage(Rendered, input)
     /\ VoiceClearInput => (input' = <<>> /\ OnlyInputChanges)
     /\ VoiceNewChat => CreateNewChat]_vars

(***************************************************************************)
(* C22  Delta ordering without interleaving.                               *)
(***************************************************************************)
\* call i consumes its stream
Streaming(i) == i \in 1..Len(sends) /\ sends[i].pc = "stream"

\* C22: no two calls that consume their streams have the same session, and
\* while a call consumes its stream the trailing message of its session is
\* the model message whose content is the value the stream emitted last
\* (empty before the first value).
C22_DeltaOrdering ==
  /\ \A i, j \in 1..Len(sends) :
       (i # j /\ Streaming(i) /\ Streaming(j)) => sends[i].sid # sends[j].sid
  /\ \A i \in 1..Len(sends) :
       (Streaming(i) /\ sends[i].sid \in SessionIds(chatSessions)) =>
         LET messages == MessagesOf(chatSessions, sends[i].sid)
         IN /\ Len(messages) > 0
            /\ messages[Len(messages)].role = "model"
            /\ messages[Len(messages)].content = sends[i].last

(***************************************************************************)
(* C23  Alternation of turns.                                              *)
(***************************************************************************)
\* the messages at the odd positions are the user's, those at the even
\* positions are replies, model messages or error messages; with
\* errorOnlyLast an error message is a reply at the last position only
Alternates(messages, errorOnlyLast) ==
  /\ Len(messages) % 2 = 0
  /\ \A k \in 1..Len(messages) :
       IF k % 2 = 1 THEN messages[k].role = "user"
       ELSE \/ messages[k].role = "model"
            \/ /\ messages[k].role = "error"
               /\ errorOnlyLast => k = Len(messages)

\* C23 as stated: the messages of every session alternate between user and
\* model, from a user message on; only the trailing message may be an error
\* message instead.
C23_AlternatesErrorLast ==
  \A s \in 1..Len(chatSessions) : Alternates(chatSessions[s].messages, TRUE)

\* C23: the messages of every session alternate between a user message and
\* a reply, from a user message on, a reply being a model message or the
\* error message that replaced it; an error message stays where it is when
\* later exchanges are appended.
C23_AlternatesUserReply ==
  \A s \in 1..Len(chatSessions) : Alternates(chatSessions[s].messages, FALSE)

\* an exchange has been appended after a failed one
C23_Witness ==
  \E s \in 1..Len(chatSessions) :
    /\ Len(chatSessions[s].messages) = 4
    /\ chatSessions[s].messages[2].role = "error"
    /\ chatSessions[s].messages[4].role = "model"

(***************************************************************************)
(* C24  Messages are append-only and settle.                               *)
(***************************************************************************)
\* call i consumes its stream and the message at position k of session id
\* is the placeholder it appended
Produces(i, id, k) ==
  Streaming(i) /\ sends[i].sid = id /\ sends[i].slot = k

\* C24: in every step, a session that stays in the collection keeps its
\* messages and may get more; a message changes only if it is the last of
\* its session and the send that appended it still consumes its stream.
C24_MessagesSettle ==
  [][\A s \in 1..Len(chatSessions) :
       LET id == chatSessions[s].id
           old == chatSessions[s].messages
           new == MessagesOf(chatSessions', id)
       IN id \in SessionIds(chatSessions') =>
            /\ Len(new) >= Len(old)
            /\ \A k \in 1..Len(old) :
                 new[k] # old[k] =>
                   /\ k = Len(old)
                   /\ \E i \in 1..Len(sends) : Produces(i, id, k)]_vars

(***************************************************************************)
(* C25  The frame of applying an emitted value.                            *)
(***************************************************************************)
\* session s is the same in both collections but for the content of its
\* last message, which is chunk in cs2 if contentChanges
SameButTrailingContent(cs1, cs2, s, contentChanges, chunk) ==
  LET old == cs1[s].messages
      new == cs2[s].messages
  IN /\ cs2[s].id = cs1[s].id
     /\ cs2[s].title = cs1[s].title
     /\ Len(new) = Len(old)
     /\ \A k \in 1..Len(old) :
          IF contentChanges /\ k = Len(old)
            THEN new[k].role = old[k].role /\ new[k].content = chunk
            ELSE new[k] = old[k]

\* C25: the step in which a send applies a value of its stream leaves the
\* number and the order of the sessions, every title, the active id, every
\* other session and, in the send's session, the number of messages and
\* every message but the last as they are; the last message keeps its role
\* and gets the value as its content.
C25_EmittedValueFrame ==
  [][\A i \in 1..MaxSends : StreamYield(i) =>
       /\ activeSessionId' = activeSessionId
       /\ Len(chatSessions') = Len(chatSessions)
       /\ \A s \in 1..Len(chatSessions) :
            SameButTrailingContent(chatSessions, chatSessions', s,
                                   chatSessions[s].id = sends[i].sid,
                                   sends'[i].last)]_vars

\* a value was applied in a session of several messages, next to another
\* session
C25_Witness ==
  \E i \in 1..Len(sends) :
    /\ Streaming(i)
    /\ sends[i].last # <<>>
    /\ Len(chatSessions) = 2
    /\ Len(MessagesOf(chatSessions, sends[i].sid)) = 4
    /\ MessagesOf(chatSessions, sends[i].sid)[4].content = sends[i].last

(***************************************************************************)
(* C26  The active id names a session of the collection.                   *)
(***************************************************************************)
\* C26: in every reachable state the active id is none or the id of a
\* session of the collection.
C26_ActiveIdValid ==
  activeSessionId = NULL \/ activeSessionId \in SessionIds(chatSessions)

\* two sessions were created and deleted again, and the stored session that
\* is left is the active one
C26_Witness ==
  /\ phase = "ready"
  /\ Len(sends) = 2 /\ sends[1] = Done /\ sends[2] = Done
  /\ chatSessions = <<EarlierSession>>
  /\ activeSessionId = EarlierSession.id

(***************************************************************************)
(* C27  The collection is ordered by creation, newest first.               *)
(***************************************************************************)
\* the ids of the sessions of cs, in their order
IdsOf(cs) == [k \in 1..Len(cs) |-> cs[k].id]

\* the ids of ids that are in the set keep, in their order
Restrict(ids, keep) == SelectSeq(ids, LAMBDA id : id \in keep)

\* the number in the order of creation of the session id: the stored
\* session is the oldest, then come the sessions of the calls 1, 2, ...
CreatedAs(id) ==
  IF id = EarlierSession.id THEN 0
  ELSE CHOOSE n \in 1..(MaxSends + 1) : NewId(n) = id

\* C27: the sessions of the collection are in the order of their creation,
\* the newest first; and in every step the sessions that stay keep their
\* relative order and the sessions that come in stand before them.
C27_NewestFirst ==
  /\ [](\A j, k \in 1..Len(chatSessions) :
          j < k => CreatedAs(chatSessions[j].id) > CreatedAs(chatSessions[k].id))
  /\ [][LET old == IdsOf(chatSessions)
            new == IdsOf(chatSessions')
            stay == SessionIds(chatSessions) \cap SessionIds(chatSessions')
        IN /\ Restrict(new, stay) = Restrict(old, stay)
           /\ \A j, k \in 1..Len(new) :
                (new[j] \in stay /\ new[k] \notin stay) => k < j]_vars

\* three sessions were there, the middle one was deleted
C27_Witness ==
  /\ phase = "ready"
  /\ IdsOf(chatSessions) = <<NewId(2), EarlierSession.id>>
  /\ Len(sends) = 2 /\ sends[1] = Done /\ sends[2] = Done
  /\ Len(chatSessions[1].messages) = 2

(***************************************************************************)
(* C28  The conversation sent to the API.                                  *)
(***************************************************************************)
\* the messages as the API takes them, error messages included
AsConversation(messages) ==
  [k \in 1..Len(messages) |->
     [role |-> MapRoleToApi(messages[k].role), content |-> messages[k].content]]

\* the step accepts a call of handleSendMessage
AcceptsSend == Len(sends') = Len(sends) + 1

\* C28: the conversation posted for an accepted send, after the system
\* instruction, is the whole message list that the session of the send held
\* before the step, in order, followed by the new user content; for a send
\* that creates its session it is the new user content alone.
C28_ConversationSent ==
  [][AcceptsSend =>
       LET send == sends'[Len(sends')]
           before == IF send.isNew THEN <<>>
                     ELSE MessagesOf(chatSessions, send.sid)
       IN Tail(send.request) =
            AsConversation(before)
            \o <<[role |-> "user", content |-> send.content]>>]_vars

(***************************************************************************)
(* C29  Results follow the originating session.                            *)
(***************************************************************************)
\* the step writes a result of call i: a value of its stream, its error
\* message or its title
WritesResult(i) == StreamYield(i) \/ StreamFail(i) \/ TitleResolve(i)

\* C29: a step that writes a result of a call leaves the active id and
\* every session other than the session of the call as they are, the active
\* session among them when it is another one; and the session of the call,
\* if it is still there, holds the result: the value or the error message
\* as its trailing message, or a title of the title generator.
C29_ResultsFollowSession ==
  [][\A i \in 1..MaxSends : WritesResult(i) =>
       /\ activeSessionId' = activeSessionId
       /\ Len(chatSessions') = Len(chatSessions)
       /\ \A s \in 1..Len(chatSessions) :
            chatSessions[s].id # sends[i].sid =>
              chatSessions'[s] = chatSessions[s]
       /\ sends[i].sid \in SessionIds(chatSessions) =>
            LET after == FindSession(chatSessions', sends[i].sid)
                trailing == after.messages[Len(after.messages)]
            IN /\ StreamYield(i) => trailing.content = sends'[i].last
               /\ StreamFail(i) => trailing.role = "error"
               /\ TitleResolve(i) => after.title \in Titles]_vars

\* a value has arrived for a call while another session is the active one
C29_Witness ==
  \E i \in 1..Len(sends) :
    /\ Streaming(i)
    /\ sends[i].last # <<>>
    /\ activeSessionId \in SessionIds(chatSessions) \ {sends[i].sid}
    /\ sends[i].sid \in SessionIds(chatSessions)
    /\ MessagesOf(chatSessions, sends[i].sid)
         [Len(MessagesOf(chatSessions, sends[i].sid))].content = sends[i].last
    /\ MessagesOf(chatSessions, activeSessionId) = EarlierSession.messages

(***************************************************************************)
(* C30  A deleted session is never resurrected.                            *)
(***************************************************************************)
\* the session of call i is not in the collection any more
SessionGone(i) ==
  i \in 1..Len(sends) /\ sends[i] # Done
  /\ sends[i].sid \notin SessionIds(chatSessions)

Cleared == [chatSessions |-> NoItem, activeSessionId |-> NoItem]

\* C30: a step that writes a result of a call whose session is gone leaves
\* the collection and the active id as they are, and the storage cleared if
\* the collection is empty; and the step in which such a call finishes
\* leaves the in-flight flag false.
C30_NeverResurrected ==
  [][\A i \in 1..MaxSends : SessionGone(i) =>
       /\ WritesResult(i) =>
            /\ chatSessions' = chatSessions
            /\ activeSessionId' = activeSessionId
            /\ chatSessions = <<>> => storage' = Cleared
       /\ Finishes(i) => ~isLoading']_vars

\* the session of a call was deleted, the collection is empty and the
\* storage cleared, and the call still waits for its title
C30_Witness ==
  \E i \in 1..Len(sends) :
    /\ SessionGone(i)
    /\ sends[i].pc = "title"
    /\ sends[i].last # <<>>
    /\ chatSessions = <<>>
    /\ storage = Cleared
    /\ isLoading


(***************************************************************************)
(* C31  The in-flight flag of a send that created its session.             *)
(***************************************************************************)
\* call i created its session and has not left handleSendMessage
CreatorInFlight(i) == InFlight(i) /\ sends[i].isNew

\* C31: while a send that created its session is in flight, up to the step
\* in which its title request resolves, the in-flight flag is set; a send
\* attempted while such a call waits for its title is rejected and changes
\* nothing; and the flag is cleared on behalf of such a call only in the
\* step that writes its title, or when its stream failed.
C31_FlagUntilTitle ==
  /\ [](\A i \in 1..MaxSends : CreatorInFlight(i) => isLoading)
  /\ [][\A i \in 1..MaxSends :
          (AwaitsTitle(i) /\ SendCall) => UNCHANGED appVars]_vars
  /\ [][\A i \in 1..MaxSends :
          (CreatorInFlight(i) /\ isLoading /\ ~isLoading') =>
             \/ Reload
             \/ StreamFail(i)
             \/ /\ TitleResolve(i)
                /\ sends[i].sid \in SessionIds(chatSessions) =>
                     TitleIn(chatSessions', sends[i].sid) \in Titles]_vars


(***************************************************************************)
(* C32  Who asks for a title, and when.                                    *)
(***************************************************************************)
\* the first exchange of session s has failed
FirstExchangeFailed(s) ==
  Len(s.messages) >= 2 /\ s.messages[2].role = "error"

\* C32: an accepted call is marked as the creator of its session exactly
\* when the call has added its session to the collection; getTitleForChat is
\* invoked only by such a call, for the session it created, in the step in
\* which its stream ends normally, and never in a step in which a stream
\* fails; and a session whose first exchange has failed is titled 'New Chat'
\* in every state, whatever exchanges follow.
C32_TitleOnlyByCreator ==
  /\ [][\A content \in Inputs \cup Prompts :
          Accepted(content) =>
            LET send == sends'[Len(sends')]
            IN /\ send.isNew <=>
                    /\ activeSessionId' = send.sid
                    /\ send.sid \notin SessionIds(chatSessions)
                    /\ send.sid \in SessionIds(chatSessions')
               /\ send.pc # "title"]_vars
  /\ [][\A i \in 1..MaxSends :
          (~AwaitsTitle(i) /\ AwaitsTitle(i)') =>
             /\ StreamEnd(i)
             /\ sends[i].isNew
             /\ sends[i].sid \notin SessionIds(<<EarlierSession>>)]_vars
  /\ [](\A k \in 1..Len(chatSessions) :
          FirstExchangeFailed(chatSessions[k]) =>
            chatSessions[k].title = NewChatTitle)

\* the first exchange of a session has failed, a second exchange in that
\* session has completed with a reply, and the title is still 'New Chat'
C32_Witness ==
  /\ Len(sends) = 2 /\ sends[1] = Done /\ sends[2] = Done
  /\ ~isLoading
  /\ \E k \in 1..Len(chatSessions) :
       /\ FirstExchangeFailed(chatSessions[k])
       /\ Len(chatSessions[k].messages) = 4
       /\ chatSessions[k].messages[4].role = "model"
       /\ chatSessions[k].messages[4].content # <<>>
       /\ chatSessions[k].title = NewChatTitle


(***************************************************************************)
(* C33  The transport ends without a sentinel.                             *)
(***************************************************************************)
\* the exchange as the session holds it when the stream gave the text acc
ExchangeWith(acc) == <<UserMessage(SentContent), ModelMessage(acc)>>

\* C33: once the reader has reported the end of the body and no
\* 'data: [DONE]' record was processed before, sendMessageStream has
\* finished without an error: no error is thrown or caught, no message of
\* the session is an error message, the trailing model message holds the
\* text accumulated so far, the next step of the call is the title request
\* with that exchange, and the call ends after the title request was made.
C33_EndWithoutSentinel ==
  /\ [](gen.status = "ended" =>
          /\ http.pc # "catch" /\ http.error = ""
          /\ \A k \in 1..Len(http.messages) : http.messages[k].role # "error"
          /\ http.messages = ExchangeWith(gen.acc)
          /\ http.pc = "done" =>
               http.requests = 2 /\ http.sessionTitle = http.title)
  /\ [][(gen.status = "ended" /\ http.fn = "sendMessageStream"
           /\ http' # http) =>
          /\ http'.fn = "getTitleForChat" /\ http'.pc = "start"
          /\ http'.arg = ExchangeWith(gen.acc)]_vars

\* a body of two deltas and no sentinel was read to its end, in more than
\* one chunk, and the call has ended with a generated title
C33_Witness ==
  /\ body.records = <<"deltaA", "deltaE">> /\ body.terminated
  /\ gen.status = "ended" /\ gen.splitLine
  /\ gen.acc = <<"a", "é">>
  /\ http.pc = "done"
  /\ http.sessionTitle # NewChatTitle


(***************************************************************************)
(* C34  A final record without its newline.                                *)
(***************************************************************************)
\* the body ends with a record that carries a delta and has no newline
FinalDeltaUnterminated ==
  /\ ~body.terminated
  /\ body.records # <<>>
  /\ DeltaText(body.records[Len(body.records)]) # <<>>

\* the deltas of the records before the final one, up to the sentinel
PrecedingDeltas ==
  LET before == SubSeq(body.records, 1, Len(body.records) - 1)
      stop == FirstIndexOf(before, "done")
      live == IF stop = 0 THEN before ELSE SubSeq(before, 1, stop - 1)
  IN SelectSeq([k \in 1..Len(live) |-> DeltaText(live[k])],
               LAMBDA d : d # <<>>)

\* C34: when the body ends with a delta record that has no newline, then
\* in whatever chunks the body arrives, no more values are emitted than the
\* records before the final one carry deltas, the text accumulated is at
\* every moment a concatenation of those deltas only, and when the
\* generator has finished the final text is exactly their concatenation:
\* the delta of the final record is neither emitted nor part of the text.
C34_UnterminatedFinalRecord ==
  FinalDeltaUnterminated =>
    /\ Len(gen.emitted) <= Len(PrecedingDeltas)
    /\ gen.acc = ConcatFirst(PrecedingDeltas, Len(gen.emitted))
    /\ gen.status \in {"ended", "returned"} =>
         /\ Len(gen.emitted) = Len(PrecedingDeltas)
         /\ gen.acc = ConcatFirst(PrecedingDeltas, Len(PrecedingDeltas))

\* a body of two delta records, the second without its newline, was read
\* to its end in more than one chunk: one value was emitted and the text
\* of the second record is still in the buffer
C34_Witness ==
  /\ body.records = <<"deltaA", "deltaE">> /\ ~body.terminated
  /\ gen.status = "ended"
  /\ gen.splitLine
  /\ gen.emitted = << <<"a">> >>
  /\ gen.buffer = DataPrefix \o <<"{", "é", "}">>


(***************************************************************************)
(* C35  What a request carries.                                            *)
(***************************************************************************)
\* the positions in session id of the placeholders of the calls in flight
PendingSlots(id) ==
  {sends[i].slot : i \in {j \in 1..Len(sends) : InFlight(j) /\ sends[j].sid = id}}

\* the user and model messages among messages, in their order, without the
\* messages at the positions in pending, as the API names their roles
SettledTurns(messages, pending) ==
  LET tagged == [k \in 1..Len(messages) |-> [at |-> k, msg |-> messages[k]]]
      kept == SelectSeq(tagged, LAMBDA t : /\ t.msg.role \in {"user", "model"}
                                           /\ t.at \notin pending)
  IN [k \in 1..Len(kept) |->
        [role |-> IF kept[k].msg.role = "user" THEN "user" ELSE "assistant",
         content |-> kept[k].msg.content]]

\* C35: the message list posted for an accepted send is the system
\* instruction, then the user and model messages that the session of the
\* send held before the send, in their order, without its error messages
\* and without the placeholder of a call in flight, then the new user
\* message; for a send that creates its session it is the system
\* instruction and the new user message.
C35_RequestMessages ==
  [][AcceptsSend =>
       LET send == sends'[Len(sends')]
           before == IF send.isNew THEN <<>>
                     ELSE MessagesOf(chatSessions, send.sid)
       IN send.request =
            <<[role |-> "system", content |-> SYSTEM_INSTRUCTION]>>
            \o SettledTurns(before, PendingSlots(send.sid))
            \o <<[role |-> "user", content |-> send.content]>>]_vars


(***************************************************************************)
(* C36  The new-chat state and a reload.                                   *)
(***************************************************************************)
\* sessions exist and none of them is active: the new-chat state
NewChatState(cs, aid) == Len(cs) > 0 /\ aid = NULL

\* C36: whenever the application shows the new-chat state, storage holds
\* the collection and no 'activeSessionId' key; and when the page was
\* closed in the new-chat state, the start-up that follows makes the first
\* session of the collection active, not none.
C36_NewChatNotRestored ==
  /\ []((phase = "ready" /\ NewChatState(chatSessions, activeSessionId)) =>
          /\ storage.chatSessions = Item(Stringify(chatSessions))
          /\ ~storage.activeSessionId.has)
  /\ [][(LoadCommit /\ closed.set
           /\ NewChatState(closed.sessions, closed.active)) =>
          /\ chatSessions' = closed.sessions
          /\ activeSessionId' = closed.sessions[1].id
          /\ ~NewChatState(chatSessions', activeSessionId')]_vars

\* a session was created and titled, the new-chat state was entered and the
\* page was closed in it; the load effect of the next start-up has chosen
\* that session as the active one
C36_Witness ==
  /\ phase = "loading" /\ closed.set
  /\ NewChatState(closed.sessions, closed.active)
  /\ Len(closed.sessions) = 1
  /\ closed.sessions[1].id = NewId(1)
  /\ closed.sessions[1].title = "T"
  /\ loaded.sessions = closed.sessions
  /\ loaded.active = NewId(1)


(***************************************************************************)
(* C37  Start-up keeps what is stored.                                     *)
(***************************************************************************)
\* storage holds the serialization of a non-empty collection
HoldsCollection(st) ==
  /\ st.chatSessions.has
  /\ Parse(st.chatSessions.v).ok /\ IsArray(st.chatSessions.v)
  /\ Len(Parse(st.chatSessions.v).val) > 0

\* the collection that storage holds
StoredCollection(st) == Parse(st.chatSessions.v).val

\* C37: when storage holds a well-formed non-empty collection at the
\* start, the effects of the first render read that collection and then
\* remove the 'chatSessions' key (the save effect runs with the empty
\* initial collection); while the collection read waits to be rendered
\* storage stays without it; and the effects of the render that follows put
\* the same collection back, so that storage holds at the end of the
\* start-up the collection it held at the start.
C37_StartupKeepsSessions ==
  /\ [][(Mount /\ HoldsCollection(storage)) =>
          /\ loaded'.sessions = StoredCollection(storage)
          /\ ~storage'.chatSessions.has]_vars
  /\ [](phase = "loading" => ~storage.chatSessions.has)
  /\ [][(LoadCommit /\ Len(loaded.sessions) > 0) =>
          /\ HoldsCollection(storage')
          /\ StoredCollection(storage') = loaded.sessions
          /\ chatSessions' = loaded.sessions]_vars

\* the application has started on the storage an earlier run has left and
\* nothing was done since: storage holds the earlier session again
C37_Witness ==
  /\ phase = "ready"
  /\ sends = <<>> /\ input = <<>> /\ ~voice.on /\ ~closed.set
  /\ chatSessions = <<EarlierSession>>
  /\ HoldsCollection(storage)
  /\ StoredCollection(storage) = <<EarlierSession>>

=============================================================================
